---------------------------- MODULE Spec2Model ----------------------------
(***************************************************************************)
(* HelpDesk CLI: the account directory, the ticket ledger, the record     *)
(* store under them and the session loop that drives them.                *)
(*                                                                         *)
(* Text is modelled as Python sees it: a string is a sequence of one-      *)
(* character strings, so that strip(), lower(), int() and str() are        *)
(* computed and not assumed.  A file is a flag (does the path exist) and   *)
(* the sequence of its lines.                                              *)
(***************************************************************************)
EXTENDS Integers, Sequences, FiniteSets, TLC

(***************************************************************************)
(* Bounds of the model.                                                    *)
(***************************************************************************)
\* the clock stops here: no handler that reads the clock starts later
MaxClock == 5
\* clock readings left to a run that starts on stores an earlier run left
RunOps == 3
\* tickets in the store an earlier run left (SpecRunning)
MaxSeed == 2
\* lines of a store that was edited by hand (SpecLegacy)
MaxLegacy == 2
\* records handed to one write_json_lines call (SpecCrash)
MaxWrite == 2

(***************************************************************************)
(* Python strings.                                                         *)
(***************************************************************************)
Whitespace == {" ", "\t", "\n", "\r"}

DigitChars == <<"0","1","2","3","4","5","6","7","8","9">>

DigitSet == {DigitChars[d] : d \in 1..10}

IsDigit(c) == c \in DigitSet

DigitVal(c) == (CHOOSE d \in 1..10 : DigitChars[d] = c) - 1

UpperChars == <<"A","B","C","D","E","F","G","H","I","J","K","L","M",
                "N","O","P","Q","R","S","T","U","V","W","X","Y","Z">>

LowerChars == <<"a","b","c","d","e","f","g","h","i","j","k","l","m",
                "n","o","p","q","r","s","t","u","v","w","x","y","z">>

UpperSet == {UpperChars[k] : k \in 1..26}

LowerSet == {LowerChars[k] : k \in 1..26}

LowerOf == [c \in UpperSet |-> LowerChars[CHOOSE k \in 1..26 : UpperChars[k] = c]]

\* str.lower(), one character
lower_char(c) == IF c \in UpperSet THEN LowerOf[c] ELSE c

\* str.lower()
lower(s) == [i \in 1..Len(s) |-> lower_char(s[i])]

\* s[:n]
Take(s, n) == SubSeq(s, 1, IF Len(s) < n THEN Len(s) ELSE n)

\* str.lstrip()
RECURSIVE lstrip(_)
lstrip(s) ==
    IF s # <<>> /\ s[1] \in Whitespace THEN lstrip(Tail(s)) ELSE s

\* str.rstrip()
RECURSIVE rstrip(_)
rstrip(s) ==
    IF s # <<>> /\ s[Len(s)] \in Whitespace
    THEN rstrip(SubSeq(s, 1, Len(s) - 1))
    ELSE s

\* str.strip()
strip(s) == rstrip(lstrip(s))

\* str.replace(old, new) for a one-character old
replace(s, old, new) == [i \in 1..Len(s) |-> IF s[i] = old THEN new ELSE s[i]]

\* str(n) of an integer
RECURSIVE str_of_nat(_)
str_of_nat(n) ==
    IF n < 10 THEN <<DigitChars[n + 1]>>
    ELSE str_of_nat(n \div 10) \o <<DigitChars[(n % 10) + 1]>>

str_of_int(n) == IF n < 0 THEN <<"-">> \o str_of_nat(0 - n) ELSE str_of_nat(n)

\* the digits of an int() literal once sign and blanks are gone:
\* digits, single underscores allowed between two digits
IsDigitGroup(u) ==
    /\ u # <<>>
    /\ IsDigit(u[1])
    /\ IsDigit(u[Len(u)])
    /\ \A i \in 1..Len(u) : IsDigit(u[i]) \/ u[i] = "_"
    /\ \A i \in 1..(Len(u) - 1) : ~(u[i] = "_" /\ u[i + 1] = "_")

Unsigned(t) == IF t # <<>> /\ t[1] \in {"+", "-"} THEN Tail(t) ELSE t

\* int(s) does not raise ValueError
int_parses(s) == IsDigitGroup(Unsigned(strip(s)))

RECURSIVE DigitsValue(_, _)
DigitsValue(u, acc) ==
    IF u = <<>> THEN acc
    ELSE IF u[1] = "_" THEN DigitsValue(Tail(u), acc)
    ELSE DigitsValue(Tail(u), (10 * acc) + DigitVal(u[1]))

\* int(s), for an s that parses
int_of(s) ==
    LET t == strip(s)
        v == DigitsValue(Unsigned(t), 0)
    IN  IF t[1] = "-" THEN 0 - v ELSE v

\* pattern in text
Contains(text, pat) ==
    \E i \in 1..(Len(text) - Len(pat) + 1) :
        SubSeq(text, i, i + Len(pat) - 1) = pat

(***************************************************************************)
(* validation.py                                                           *)
(***************************************************************************)
MinUsernameLen == 3
MaxUsernameLen == 30
MinPasswordLen == 6
MaxPasswordLen == 64
MinTextLen == 3
MaxTitleLen == 100
MaxDescriptionLen == 500

\* the character class [a-zA-Z0-9._]
IsUsernameChar(c) ==
    c \in DigitSet \/ c \in UpperSet \/ c \in LowerSet \/ c \in {".", "_"}

\* re.match(r'^[a-zA-Z0-9._]+$', s): in Python "$" also matches just before
\* a newline that ends the string
MatchesUsernamePattern(s) ==
    LET core == IF s # <<>> /\ s[Len(s)] = "\n"
                THEN SubSeq(s, 1, Len(s) - 1) ELSE s
    IN  core # <<>> /\ \A i \in 1..Len(core) : IsUsernameChar(core[i])

\* re.match(r'^[a-z_]+$', s)
MatchesChoicePattern(s) ==
    LET core == IF s # <<>> /\ s[Len(s)] = "\n"
                THEN SubSeq(s, 1, Len(s) - 1) ELSE s
    IN  /\ core # <<>>
        /\ \A i \in 1..Len(core) : core[i] = "_" \/ core[i] \in LowerSet

is_valid_username(username) ==
    /\ username # <<>>
    /\ Len(username) >= MinUsernameLen
    /\ Len(username) <= MaxUsernameLen
    /\ MatchesUsernamePattern(username)

is_valid_password(password) ==
    MinPasswordLen <= Len(password) /\ Len(password) <= MaxPasswordLen

role_user == <<"u","s","e","r">>

role_agent == <<"a","g","e","n","t">>

is_valid_role(role) == role \in {role_user, role_agent}

dangerous_patterns ==
    { <<"'",";">>, <<"\"",";">>, <<"-","-">>, <<"/","*">>, <<"*","/">>,
      <<"x","p","_">>, <<"s","p","_">>, <<"e","x","e","c">>,
      <<"e","x","e","c","u","t","e">>, <<"s","e","l","e","c","t">>,
      <<"i","n","s","e","r","t">>, <<"u","p","d","a","t","e">>,
      <<"d","e","l","e","t","e">>, <<"d","r","o","p">>,
      <<"c","r","e","a","t","e">>, <<"a","l","t","e","r">>,
      <<"u","n","i","o","n">>, <<"s","c","r","i","p","t">>,
      <<"<","s","c","r","i","p","t">>,
      <<"j","a","v","a","s","c","r","i","p","t",":">>,
      <<"o","n","e","r","r","o","r","=">> }

contains_sql_injection_patterns(text) ==
    LET text_lower == lower(text)
    IN  \E pat \in dangerous_patterns : Contains(text_lower, pat)

\* safe_input returns the stripped line `value`: every other line is asked for
\* again.  field_type is "username" or "choice" in this program.
safe_input_returns(value, field_type) ==
    \/ value = <<>>
    \/ /\ ~contains_sql_injection_patterns(value)
       /\ field_type = "username" => MatchesUsernamePattern(value)
       /\ field_type = "choice" => MatchesChoicePattern(value)

\* a variant without the cut at max_length
sanitize_text_field_uncut(text, max_length) ==
    replace(replace(strip(text), "\n", " "), "\r", " ")

sanitize_text_field(text, max_length) ==
    LET stripped == strip(text)
        flat == replace(replace(stripped, "\n", " "), "\r", " ")
    IN  IF Len(flat) > max_length THEN SubSeq(flat, 1, max_length) ELSE flat

(***************************************************************************)
(* security.py: SHA-256 is modelled as an injective image of the password. *)
(***************************************************************************)
hash_password(password) == <<"sha256", ":">> \o password

\* a variant that accepts every password
verify_password_any(password, password_hash) == TRUE

verify_password(password, password_hash) ==
    hash_password(password) = password_hash

(***************************************************************************)
(* storage.py: a file is [exists, lines].  A line is a JSON object         *)
(* ("object", with its dict), some other JSON value ("nonobject"), a line  *)
(* json.loads rejects ("garbage") or a blank line.  A dict maps field      *)
(* names to JSON values: a string, or a number JsonNum(n).                 *)
(***************************************************************************)
NoFile == [exists |-> FALSE, lines |-> <<>>]

JsonNum(n) == <<"#num", n>>

ObjectLine(d) == [kind |-> "object", data |-> d]

GarbageLine == [kind |-> "garbage", data |-> <<>>]

BlankLine == [kind |-> "blank", data |-> <<>>]

NonObjectLine == [kind |-> "nonobject", data |-> <<>>]

\* read_json_lines: the values json.loads returns, in file order
read_json_lines(file) ==
    IF ~file.exists THEN <<>>
    ELSE SelectSeq(file.lines, LAMBDA l : l.kind \in {"object", "nonobject"})

\* the file write_json_lines leaves at `path` when it runs to its end
write_json_lines(records) ==
    [exists |-> TRUE,
     lines  |-> [i \in 1..Len(records) |-> ObjectLine(records[i])]]

\* a variant that opens the file with mode "w"
append_json_line_truncate(file, record) ==
    [exists |-> TRUE, lines |-> <<ObjectLine(record)>>]

\* append_json_line: open(path, "a") creates the file when it is absent
append_json_line(file, record) ==
    [exists |-> TRUE, lines |-> Append(file.lines, ObjectLine(record))]

\* str(data.get(field, ""))
StrField(data, field) ==
    IF field \in DOMAIN data
    THEN LET v == data[field]
         IN  IF v # <<>> /\ v[1] = "#num" THEN str_of_int(v[2]) ELSE v
    ELSE <<>>

(***************************************************************************)
(* models/ticket.py, models/user.py                                        *)
(***************************************************************************)
\* a variant that reads the key "assignee" where to_dict writes "assignee_id"
Ticket_from_dict_assignee(data) ==
    [id          |-> StrField(data, "id"),
     owner_id    |-> StrField(data, "owner_id"),
     title       |-> StrField(data, "title"),
     description |-> StrField(data, "description"),
     status      |-> StrField(data, "status"),
     priority    |-> StrField(data, "priority"),
     assignee_id |-> StrField(data, "assignee"),
     created_at  |-> StrField(data, "created_at"),
     updated_at  |-> StrField(data, "updated_at")]

Ticket_from_dict(data) ==
    [id          |-> StrField(data, "id"),
     owner_id    |-> StrField(data, "owner_id"),
     title       |-> StrField(data, "title"),
     description |-> StrField(data, "description"),
     status      |-> StrField(data, "status"),
     priority    |-> StrField(data, "priority"),
     assignee_id |-> StrField(data, "assignee_id"),
     created_at  |-> StrField(data, "created_at"),
     updated_at  |-> StrField(data, "updated_at")]

Ticket_to_dict(t) ==
    [id          |-> t.id,
     owner_id    |-> t.owner_id,
     title       |-> t.title,
     description |-> t.description,
     status      |-> t.status,
     priority    |-> t.priority,
     assignee_id |-> t.assignee_id,
     created_at  |-> t.created_at,
     updated_at  |-> t.updated_at]

User_from_dict(data) ==
    [id            |-> StrField(data, "id"),
     username      |-> StrField(data, "username"),
     password_hash |-> StrField(data, "password_hash"),
     role          |-> StrField(data, "role"),
     created_at    |-> StrField(data, "created_at"),
     updated_at    |-> StrField(data, "updated_at")]

User_to_dict(u) ==
    [id            |-> u.id,
     username      |-> u.username,
     password_hash |-> u.password_hash,
     role          |-> u.role,
     created_at    |-> u.created_at,
     updated_at    |-> u.updated_at]

\* f applied to every element of s
Map(s, f(_)) == [i \in 1..Len(s) |-> f(s[i])]

\* Optional[T]: <<>> is None, <<x>> is the object x
None == <<>>

Some(x) == <<x>>

(***************************************************************************)
(* logger.py.  The clock is a counter; isoformat() + "Z" is its decimal    *)
(* numeral followed by "Z".  Accented letters of the messages are written  *)
(* without the accent.                                                     *)
(***************************************************************************)
MaxDetailsLen == 200

utcnow_iso(t) == str_of_nat(t) \o <<"Z">>

anonymous == <<"a","n","o","n","y","m","o","u","s">>

unknown == <<"u","n","k","n","o","w","n">>

\* a variant that writes every event as an anonymous one
log_action_anonymous(usr, action, entity, entity_id, status, details, t) ==
    [timestamp |-> utcnow_iso(t),
     user_id   |-> anonymous,
     username  |-> unknown,
     role      |-> unknown,
     action    |-> action,
     entity    |-> entity,
     entity_id |-> entity_id,
     status    |-> status,
     details   |-> IF Len(details) > MaxDetailsLen
                   THEN SubSeq(details, 1, MaxDetailsLen) ELSE details]

\* the record log_action appends to the audit log
log_action(usr, action, entity, entity_id, status, details, t) ==
    [timestamp |-> utcnow_iso(t),
     user_id   |-> IF usr # None THEN usr[1].id ELSE anonymous,
     username  |-> IF usr # None THEN usr[1].username ELSE unknown,
     role      |-> IF usr # None THEN usr[1].role ELSE unknown,
     action    |-> action,
     entity    |-> entity,
     entity_id |-> entity_id,
     status    |-> status,
     details   |-> IF Len(details) > MaxDetailsLen
                   THEN SubSeq(details, 1, MaxDetailsLen) ELSE details]

\* the audit log after log_action has been called for each of `events`
RECURSIVE AppendAll(_, _)
AppendAll(file, events) ==
    IF events = <<>> THEN file
    ELSE AppendAll(append_json_line(file, Head(events)), Tail(events))

(***************************************************************************)
(* auth.py                                                                 *)
(***************************************************************************)
load_users(file) ==
    LET keep(l) ==
            /\ l.kind = "object"
            /\ LET u == User_from_dict(l.data)
               IN  u.id # <<>> /\ u.username # <<>> /\ u.password_hash # <<>>
        decode(l) == User_from_dict(l.data)
    IN  Map(SelectSeq(read_json_lines(file), keep), decode)

\* a variant that writes the last account only
save_users_last(users) ==
    write_json_lines(<<User_to_dict(users[Len(users)])>>)

save_users(users) == write_json_lines(Map(users, User_to_dict))

\* a variant of the loop that stops at the first id int() accepts
RECURSIVE MaxNumericId_first(_, _)
MaxNumericId_first(ids, max_id) ==
    IF ids = <<>> THEN max_id
    ELSE IF int_parses(Head(ids)) /\ max_id = 0
         THEN MaxNumericId_first(Tail(ids), int_of(Head(ids)))
         ELSE MaxNumericId_first(Tail(ids), max_id)

\* the loop of _next_user_id and _next_ticket_id over the ids, in order
RECURSIVE MaxNumericId(_, _)
MaxNumericId(ids, max_id) ==
    IF ids = <<>> THEN max_id
    ELSE IF int_parses(Head(ids)) /\ int_of(Head(ids)) > max_id
         THEN MaxNumericId(Tail(ids), int_of(Head(ids)))
         ELSE MaxNumericId(Tail(ids), max_id)

IdsOf(records) == [i \in 1..Len(records) |-> records[i].id]

next_user_id(users) ==
    IF users = <<>> THEN <<"1">>
    ELSE str_of_int(MaxNumericId(IdsOf(users), 0) + 1)

\* a variant that compares usernames without regard to case
find_user_by_username_lower(username, users) ==
    IF \E i \in 1..Len(users) : lower(users[i].username) = lower(username)
    THEN Some(users[CHOOSE i \in 1..Len(users) :
                  /\ lower(users[i].username) = lower(username)
                  /\ \A j \in 1..(i - 1) :
                        lower(users[j].username) # lower(username)])
    ELSE None

\* a variant that finds nobody
find_user_by_username_nobody(username, users) == None

find_user_by_username(username, users) ==
    IF \E i \in 1..Len(users) : users[i].username = username
    THEN Some(users[CHOOSE i \in 1..Len(users) :
                  /\ users[i].username = username
                  /\ \A j \in 1..(i - 1) : users[j].username # username])
    ELSE None

\* register_user: what it returns, the message it prints and the users file
\* it leaves
register_user(username, password, role, file, t) ==
    LET users == load_users(file)
        new_user == [id            |-> next_user_id(users),
                     username      |-> username,
                     password_hash |-> hash_password(password),
                     role          |-> role,
                     created_at    |-> utcnow_iso(t),
                     updated_at    |-> utcnow_iso(t)]
    IN  IF ~is_valid_username(username)
        THEN [user |-> None, msg |-> "invalid_username", file |-> file]
        ELSE IF ~is_valid_password(password)
        THEN [user |-> None, msg |-> "invalid_password", file |-> file]
        ELSE IF ~is_valid_role(role)
        THEN [user |-> None, msg |-> "invalid_role", file |-> file]
        ELSE IF find_user_by_username(username, users) # None
        THEN [user |-> None, msg |-> "conflict", file |-> file]
        ELSE [user |-> Some(new_user), msg |-> "ok",
              file |-> save_users(Append(users, new_user))]

\* a variant that returns the first account when any username is typed
login_user_anyone(username, password, file) ==
    IF load_users(file) = <<>> THEN None ELSE Some(load_users(file)[1])

login_user(username, password, file) ==
    LET found == find_user_by_username(username, load_users(file))
    IN  IF found = None THEN None
        ELSE IF ~verify_password(password, found[1].password_hash) THEN None
        ELSE found

(***************************************************************************)
(* tickets.py                                                              *)
(***************************************************************************)
st_open == <<"o","p","e","n">>

st_in_progress == <<"i","n","_","p","r","o","g","r","e","s","s">>

st_closed == <<"c","l","o","s","e","d">>

STATUS_VALUES == {st_open, st_in_progress, st_closed}

PRIORITY_VALUES == {<<"l","o","w">>, <<"m","e","d","i","u","m">>, <<"h","i","g","h">>}

is_valid_status(status) == status \in STATUS_VALUES

\* a variant that accepts any priority
is_valid_priority_any(priority) == TRUE

is_valid_priority(priority) == priority \in PRIORITY_VALUES

load_tickets(file) ==
    LET keep(l) ==
            /\ l.kind = "object"
            /\ LET t == Ticket_from_dict(l.data)
               IN  t.id # <<>> /\ t.owner_id # <<>> /\ t.title # <<>>
        decode(l) == Ticket_from_dict(l.data)
    IN  Map(SelectSeq(read_json_lines(file), keep), decode)

save_tickets(tickets) == write_json_lines(Map(tickets, Ticket_to_dict))

\* a variant that always answers "1"
next_ticket_id_one(tickets) == <<"1">>

\* a variant that counts the tickets
next_ticket_id_count(tickets) == str_of_int(Len(tickets) + 1)

next_ticket_id(tickets) ==
    IF tickets = <<>> THEN <<"1">>
    ELSE str_of_int(MaxNumericId(IdsOf(tickets), 0) + 1)

\* index of the ticket _find_ticket_by_id returns, 0 for None
find_ticket_by_id(ticket_id, tickets) ==
    IF \E i \in 1..Len(tickets) : tickets[i].id = ticket_id
    THEN CHOOSE i \in 1..Len(tickets) :
            /\ tickets[i].id = ticket_id
            /\ \A j \in 1..(i - 1) : tickets[j].id # ticket_id
    ELSE 0

\* a variant that lets a closed ticket be opened again
valid_transition_reopen(status, new_status) ==
    \/ status = st_open /\ new_status \in {st_in_progress, st_closed}
    \/ status = st_in_progress /\ new_status = st_closed
    \/ status = st_closed /\ new_status = st_open


\* a variant that lets a ticket in progress go back to open
valid_transition_back(status, new_status) ==
    \/ status = st_open /\ new_status \in {st_in_progress, st_closed}
    \/ status = st_in_progress /\ new_status \in {st_closed, st_open}

\* a variant in which everybody counts as an agent
is_agent_role_any(role) == TRUE

\* update_ticket: current_user.role == "agent", where the menu is printed and
\* where option 5 is handled
is_agent_role(role) == role = role_agent

\* update_ticket, option 4: the two branches that set valid_transition
valid_transition(status, new_status) ==
    \/ status = st_open /\ new_status \in {st_in_progress, st_closed}
    \/ status = st_in_progress /\ new_status = st_closed

\* a variant without the permission check
is_forbidden_never(usr, ticket) == FALSE

\* the permission check of view_ticket_detail and update_ticket
is_forbidden(usr, ticket) ==
    usr.role = role_user /\ ticket.owner_id # usr.id

\* a variant without the role check
may_delete_anyone(usr) == TRUE

\* the role check of delete_ticket
may_delete(usr) == usr.role = role_agent

\* a variant without the status check
is_deletable_always(ticket) == TRUE

\* the status check of delete_ticket
is_deletable(ticket) == ticket.status = st_closed

\* a variant that removes nothing
remove_ticket_none(tickets, ticket_id) == tickets

\* a variant that keeps only the tickets in front of the first one with the id
remove_ticket_front(tickets, ticket_id) ==
    SubSeq(tickets, 1, find_ticket_by_id(ticket_id, tickets) - 1)

\* delete_ticket: the tickets it keeps
remove_ticket(tickets, ticket_id) ==
    SelectSeq(tickets, LAMBDA t : t.id # ticket_id)

\* a variant that shows every requester every ticket
visible_tickets_all(usr, tickets) == tickets

\* list_tickets: the tickets it prints, in the order it prints them
visible_tickets(usr, tickets) ==
    IF usr.role = role_user
    THEN SelectSeq(tickets, LAMBDA t : t.owner_id = usr.id)
    ELSE tickets

\* what one pass of the edit menu of update_ticket does to the session
\* st = [ticket, changes_made, trace, role] for the menu entry
\* e = [option, text]; role is the role of the requester;
\* the trace keeps, per entry, the value before, the value asked for and the
\* message printed
apply_edit(st, e) ==
    LET ticket == st.ticket
        said(from, to, msg) ==
            Append(st.trace,
                   [option |-> e.option, from |-> from, to |-> to, msg |-> msg])
    IN  IF e.option = 1 THEN
            LET new_title == sanitize_text_field(e.text, MaxTitleLen)
            IN  IF new_title # <<>> /\ Len(new_title) >= MinTextLen
                THEN [st EXCEPT !.ticket = [ticket EXCEPT !.title = new_title],
                                !.changes_made = TRUE,
                                !.trace = said(ticket.title, new_title, "updated")]
                ELSE [st EXCEPT !.trace = said(ticket.title, new_title, "invalid")]
        ELSE IF e.option = 2 THEN
            LET new_description == sanitize_text_field(e.text, MaxDescriptionLen)
            IN  IF new_description # <<>> /\ Len(new_description) >= MinTextLen
                THEN [st EXCEPT
                         !.ticket = [ticket EXCEPT !.description = new_description],
                         !.changes_made = TRUE,
                         !.trace = said(ticket.description, new_description, "updated")]
                ELSE [st EXCEPT !.trace =
                         said(ticket.description, new_description, "invalid")]
        ELSE IF e.option = 3 THEN
            LET new_priority == lower(strip(e.text))
            IN  IF is_valid_priority(new_priority)
                THEN [st EXCEPT !.ticket = [ticket EXCEPT !.priority = new_priority],
                                !.changes_made = TRUE,
                                !.trace = said(ticket.priority, new_priority, "updated")]
                ELSE [st EXCEPT !.trace = said(ticket.priority, new_priority, "invalid")]
        ELSE IF e.option = 4 THEN
            LET new_status == lower(strip(e.text))
            IN  IF ~is_valid_status(new_status)
                THEN [st EXCEPT !.trace = said(ticket.status, new_status, "invalid")]
                ELSE IF valid_transition(ticket.status, new_status)
                THEN [st EXCEPT !.ticket = [ticket EXCEPT !.status = new_status],
                                !.changes_made = TRUE,
                                !.trace = said(ticket.status, new_status, "updated")]
                ELSE IF ticket.status = new_status
                THEN [st EXCEPT !.trace = said(ticket.status, new_status, "same")]
                ELSE IF ticket.status = st_closed
                THEN [st EXCEPT !.trace = said(ticket.status, new_status, "closed")]
                ELSE [st EXCEPT !.trace = said(ticket.status, new_status, "illegal")]
        ELSE IF e.option = 5 /\ is_agent_role(st.role) THEN
            LET new_assignee == strip(e.text)
            IN  [st EXCEPT !.ticket = [ticket EXCEPT !.assignee_id = new_assignee],
                           !.changes_made = TRUE,
                           !.trace = said(ticket.assignee_id, new_assignee, "updated")]
        ELSE [st EXCEPT !.trace = said(<<>>, <<>>, "ignored")]

\* a variant of the loop that ends with changes_made set whatever was entered
RECURSIVE edit_loop_dirty(_, _)
edit_loop_dirty(st, edits) ==
    IF edits = <<>> THEN [st EXCEPT !.changes_made = TRUE]
    ELSE edit_loop_dirty(apply_edit(st, Head(edits)), Tail(edits))

\* the edit menu loop, until option 0
RECURSIVE edit_loop(_, _)
edit_loop(st, edits) ==
    IF edits = <<>> THEN st
    ELSE edit_loop(apply_edit(st, Head(edits)), Tail(edits))

\* the menu offers option 5 to agents only
max_option(role) == IF is_agent_role(role) THEN 5 ELSE 4

txt_ticket == <<"T","i","c","k","e","t"," ">>

txt_colon == <<":"," ">>

txt_arrow == <<" ","-",">"," ">>

txt_unassigned == <<"S","i","n"," ","a","s","i","g","n","a","r">>

txt_deleted == <<"T","i","c","k","e","t"," ","e","l","i","m","i","n","a","d","o">>

txt_title == <<"T","i","t","u","l","o",":"," ">>

txt_priority == <<","," ","P","r","i","o","r","i","d","a","d",":"," ">>

DetailsTitleLen == 50

\* a variant that logs the three events whatever changed
update_events_every(usr, old, ticket, t) ==
    LET shown(a) == IF a # <<>> THEN a ELSE txt_unassigned
        change(action, from, to) ==
            log_action(usr, action, "ticket", ticket.id, "success",
                       txt_ticket \o ticket.id \o txt_colon \o from \o txt_arrow \o to, t)
    IN  << change("TICKET_STATUS_CHANGE", old.status, ticket.status),
           change("TICKET_PRIORITY_CHANGE", old.priority, ticket.priority),
           change("TICKET_ASSIGNEE_CHANGE",
                  shown(old.assignee_id), shown(ticket.assignee_id)) >>

\* the audit events update_ticket logs once it has saved
update_events(usr, old, ticket, t) ==
    LET shown(a) == IF a # <<>> THEN a ELSE txt_unassigned
        change(action, from, to) ==
            log_action(usr, action, "ticket", ticket.id, "success",
                       txt_ticket \o ticket.id \o txt_colon \o from \o txt_arrow \o to, t)
    IN  (IF ticket.status # old.status
         THEN <<change("TICKET_STATUS_CHANGE", old.status, ticket.status)>>
         ELSE <<>>)
        \o (IF ticket.priority # old.priority
            THEN <<change("TICKET_PRIORITY_CHANGE", old.priority, ticket.priority)>>
            ELSE <<>>)
        \o (IF ticket.assignee_id # old.assignee_id
            THEN <<change("TICKET_ASSIGNEE_CHANGE",
                          shown(old.assignee_id), shown(ticket.assignee_id))>>
            ELSE <<>>)

(***************************************************************************)
(* The lines typed at the prompts.                                         *)
(***************************************************************************)
txt_ana == <<"a","n","a">>

txt_bob == <<"b","o","b">>

txt_secret == <<"s","e","c","r","e","t">>

\* registration: the username line, the password line, the role line
RegisterInputs ==
    { <<txt_ana, txt_secret, role_user>>,
      <<<<" ","b","o","b">>, txt_secret, role_agent>>,
      <<<<"a","l">>, txt_secret, role_user>>,
      <<txt_ana, <<"s","h","o","r","t">>, role_user>>,
      <<txt_ana, txt_secret, <<"a","d","m","i","n">>>> }

\* login: the username line, the password line
LoginInputs ==
    { <<txt_ana, txt_secret>>,
      <<<<" ","b","o","b">>, txt_secret>>,
      <<txt_ana, <<"w","r","o","n","g","1">>>>,
      <<<<"e","v","e">>, txt_secret>> }

TitleInputs == {<<"a","\r","b"," ">>, <<"o","k">>}

DescriptionInputs == {<<"w","h","y">>, <<" ">>}

PriorityInputs == {<<" ","H","i","g","h">>, <<"a","s","a","p">>}

StatusInputs == {st_open, st_in_progress, <<" ","C","l","o","s","e","d">>}

IdInputs == {<<"1">>, <<" ","2">>, <<"0","7">>}

ConfirmInputs == {<<"S"," ">>, <<"n">>}

\* one entry of the edit menu: the option and the line typed for it
EditInputs ==
    {[option |-> 1, text |-> x] : x \in {<<"f","i","x">>, <<"o","k">>}}
    \cup {[option |-> 2, text |-> <<"n","e","w">>]}
    \cup {[option |-> 3, text |-> x] : x \in {<<"l","o","w">>, <<"a","s","a","p">>}}
    \cup {[option |-> 4, text |-> x] : x \in StatusInputs \cup {<<"d","o","n","e">>}}
    \cup {[option |-> 5, text |-> <<" ","2">>]}

\* the entries of one update session: any single entry, and any two status
\* entries one after the other
EditSessions ==
    {<<>>}
    \cup {<<e>> : e \in EditInputs}
    \cup {<<[option |-> 4, text |-> x], [option |-> 4, text |-> y]>> :
             x \in StatusInputs, y \in StatusInputs}

\* input_int_in_range hands back only options the menu offers
OfferedSessions(role) ==
    {es \in EditSessions : \A i \in 1..Len(es) : es[i].option <= max_option(role)}

UserSessions == OfferedSessions(role_user)

AgentSessions == OfferedSessions(role_agent)

\* the options chosen in one visit of the safety menu, before option 0
DemoInputs == {<<>>, <<2>>}

\* the lines safe_input hands back to the registration and login flows
Accepted(value, field_type) == safe_input_returns(value, field_type)

RegisterForms ==
    {f \in {<<strip(i[1]), strip(i[2]), strip(i[3])>> : i \in RegisterInputs} :
        Accepted(f[1], "username") /\ Accepted(f[3], "choice")}

LoginForms ==
    {f \in {<<strip(i[1]), strip(i[2])>> : i \in LoginInputs} :
        Accepted(f[1], "username")}

(***************************************************************************)
(* State.                                                                  *)
(***************************************************************************)
VARIABLES
    usersFile,      \* data/users.txt
    ticketsFile,    \* data/tickets.txt
    auditFile,      \* logs/audit.log
    current_user,   \* main: the session, None or the logged-in User
    now,            \* the clock datetime.utcnow() reads
    pc,             \* main: "menu" at the prompt, "report" after a handler
    out,            \* what the handler that just ran was given and reported
    hist,           \* the stores at the start of the run, the ids given out
                    \* by create_ticket and register_user, the ids deleted and
                    \* the username and password of each account registered
    tmpFile,        \* data/tickets.txt.tmp
    wpc,            \* write_json_lines: where the writer stands
    wrecords,       \* write_json_lines: the records it was given
    wold,           \* the tickets file when that write began
    procs           \* two processes started on the same store: where each
                    \* stands in its handler and what it holds in memory

storeVars == <<usersFile, ticketsFile, auditFile>>

writerVars == <<tmpFile, wpc, wrecords, wold>>

vars == <<usersFile, ticketsFile, auditFile, current_user, now, pc, out, hist,
          tmpFile, wpc, wrecords, wold, procs>>

\* the two processes of a run in which the program is started twice
Procs == {1, 2}

\* a process that has not called a handler
IdleProc == [pc |-> "idle", op |-> "none", requester |-> None, arg |-> <<>>,
             tickets |-> <<>>, result |-> <<>>, old |-> <<>>, wrote |-> 0]

Report(op, arg, result, shown, trace) ==
    [op |-> op, requester |-> current_user, arg |-> arg, result |-> result,
     shown |-> shown, trace |-> trace]

Blank == [op |-> "menu", requester |-> None, arg |-> <<>>, result |-> "ok",
          shown |-> <<>>, trace |-> <<>>]

\* the program starts: no session, the files as they were left
Start(users_file, tickets_file, audit_file, clock, known_ids) ==
    /\ usersFile = users_file
    /\ ticketsFile = tickets_file
    /\ auditFile = audit_file
    /\ current_user = None
    /\ now = clock
    /\ pc = "menu"
    /\ out = Blank
    /\ hist = [users |-> users_file, tickets |-> tickets_file,
               issued |-> known_ids, registered |-> <<>>, removed |-> <<>>,
               accounts |-> <<>>]
    /\ tmpFile = NoFile
    /\ wpc = "idle"
    /\ wrecords = <<>>
    /\ wold = NoFile
    /\ procs = [p \in Procs |-> IdleProc]

\* a fresh installation: storage.py has made the directories, no file exists
Init == Start(NoFile, NoFile, NoFile, 0, <<>>)

(***************************************************************************)
(* app.py: the main loop.  A handler runs from the prompt to its last      *)
(* print; the loop then shows the menu again.                              *)
(***************************************************************************)
Menu ==
    /\ pc = "report"
    /\ pc' = "menu"
    /\ out' = Blank
    /\ UNCHANGED <<storeVars, current_user, now, hist>>
    /\ UNCHANGED <<writerVars, procs>>

txt_new_user == <<"N","u","e","v","o"," ","u","s","u","a","r","i","o"," ">>

txt_with_role == <<" ","c","o","n"," ","r","o","l"," ">>

txt_login_ok == <<"I","n","i","c","i","o"," ","d","e"," ","s","e","s","i","o","n",
                  " ","c","o","r","r","e","c","t","o">>

txt_login_failed == <<"I","n","t","e","n","t","o"," ","d","e"," ","l","o","g","i","n",
                      " ","f","a","l","l","i","d","o"," ","p","a","r","a"," ",
                      "u","s","e","r","n","a","m","e","=">>

txt_logout == <<"C","i","e","r","r","e"," ","d","e"," ","s","e","s","i","o","n">>

txt_na == <<"N","/","A">>

Register ==
    /\ pc = "menu"
    /\ current_user = None
    /\ \E form \in RegisterForms :
          LET r == register_user(form[1], form[2], form[3], usersFile, now)
          IN  /\ out' = Report("register", form[1], r.msg, r.user, <<>>)
              /\ IF r.user # None
                 THEN /\ now < MaxClock
                      /\ usersFile' = r.file
                      /\ auditFile' = append_json_line(auditFile,
                            log_action(None, "REGISTER", "user", r.user[1].id, "success",
                                       txt_new_user \o r.user[1].username
                                           \o txt_with_role \o r.user[1].role, now))
                      /\ now' = now + 1
                      /\ hist' = [hist EXCEPT
                                    !.registered = Append(@, r.user[1].id),
                                    !.accounts = Append(@, <<form[1], form[2]>>)]
                 ELSE UNCHANGED <<usersFile, auditFile, now, hist>>
    /\ pc' = "report"
    /\ UNCHANGED <<ticketsFile, current_user>>
    /\ UNCHANGED <<writerVars, procs>>

Login ==
    /\ pc = "menu"
    /\ current_user = None
    /\ now < MaxClock
    /\ \E form \in LoginForms :
          LET found == login_user(form[1], form[2], usersFile)
          IN  /\ current_user' = found
              /\ out' = [Report("login", form[1],
                                IF found # None THEN "ok" ELSE "failed", found, <<>>)
                            EXCEPT !.requester = found]
              /\ auditFile' = append_json_line(auditFile,
                    IF found # None
                    THEN log_action(found, "LOGIN", "user", found[1].id, "success",
                                    txt_login_ok, now)
                    ELSE log_action(None, "LOGIN_FAILED", "user", txt_na, "failed",
                                    txt_login_failed \o form[1], now))
    /\ now' = now + 1
    /\ pc' = "report"
    /\ UNCHANGED <<usersFile, ticketsFile, hist>>
    /\ UNCHANGED <<writerVars, procs>>

\* option 0 of either menu ends the process; the next run starts with no
\* session and the files as they are
Exit ==
    /\ pc = "menu"
    /\ current_user' = None
    /\ out' = Report("exit", <<>>, "ok", <<>>, <<>>)
    /\ pc' = "report"
    /\ UNCHANGED <<storeVars, now, hist>>
    /\ UNCHANGED <<writerVars, procs>>

Logout ==
    /\ pc = "menu"
    /\ current_user # None
    /\ now < MaxClock
    /\ auditFile' = append_json_line(auditFile,
          log_action(current_user, "LOGOUT", "user", current_user[1].id, "success",
                     txt_logout, now))
    /\ current_user' = None
    /\ out' = Report("logout", <<>>, "ok", <<>>, <<>>)
    /\ now' = now + 1
    /\ pc' = "report"
    /\ UNCHANGED <<usersFile, ticketsFile, hist>>
    /\ UNCHANGED <<writerVars, procs>>

(***************************************************************************)
(* tickets.py: the handlers of the session menu.                           *)
(***************************************************************************)
\* create_ticket, with the lines typed at its three prompts drawn from these
create_ticket(titles, descriptions, priorities) ==
    /\ pc = "menu"
    /\ current_user # None
    /\ LET tickets == load_tickets(ticketsFile)
       IN  \E raw_title \in titles, raw_description \in descriptions,
              raw_priority \in priorities :
              LET title == sanitize_text_field(raw_title, MaxTitleLen)
                  description ==
                      sanitize_text_field(raw_description, MaxDescriptionLen)
                  priority == lower(strip(raw_priority))
                  new_ticket == [id          |-> next_ticket_id(tickets),
                                 owner_id    |-> current_user[1].id,
                                 title       |-> title,
                                 description |-> description,
                                 status      |-> st_open,
                                 priority    |-> priority,
                                 assignee_id |-> <<>>,
                                 created_at  |-> utcnow_iso(now),
                                 updated_at  |-> utcnow_iso(now)]
                  rejected(msg) ==
                      /\ out' = Report("create", <<>>, msg, <<>>, <<>>)
                      /\ UNCHANGED <<ticketsFile, auditFile, now, hist>>
              IN  IF title = <<>> \/ Len(title) < MinTextLen
                  THEN rejected("invalid_title")
                  ELSE IF description = <<>> \/ Len(description) < MinTextLen
                  THEN rejected("invalid_description")
                  ELSE IF ~is_valid_priority(priority)
                  THEN rejected("invalid_priority")
                  ELSE /\ now < MaxClock
                       /\ ticketsFile' = save_tickets(Append(tickets, new_ticket))
                       /\ auditFile' = append_json_line(auditFile,
                             log_action(current_user, "TICKET_CREATE", "ticket",
                                        new_ticket.id, "success",
                                        txt_title \o Take(title, DetailsTitleLen)
                                            \o txt_priority \o priority, now))
                       /\ now' = now + 1
                       /\ hist' = [hist EXCEPT !.issued = Append(@, new_ticket.id)]
                       /\ out' = Report("create", new_ticket.id, "ok",
                                        <<new_ticket>>, <<>>)
    /\ pc' = "report"
    /\ UNCHANGED <<usersFile, current_user>>
    /\ UNCHANGED <<writerVars, procs>>

CreateTicket == create_ticket(TitleInputs, DescriptionInputs, PriorityInputs)

ListTickets ==
    /\ pc = "menu"
    /\ current_user # None
    /\ LET tickets == load_tickets(ticketsFile)
           listed == visible_tickets(current_user[1], tickets)
       IN  out' = Report("list", <<>>, IF listed = <<>> THEN "empty" ELSE "ok",
                         listed, <<>>)
    /\ pc' = "report"
    /\ UNCHANGED <<storeVars, current_user, now, hist>>
    /\ UNCHANGED <<writerVars, procs>>

ViewTicket ==
    /\ pc = "menu"
    /\ current_user # None
    /\ LET tickets == load_tickets(ticketsFile)
       IN  \E raw_id \in IdInputs :
              LET ticket_id == strip(raw_id)
                  found == find_ticket_by_id(ticket_id, tickets)
              IN  out' = IF found = 0
                         THEN Report("view", ticket_id, "not_found", <<>>, <<>>)
                         ELSE IF is_forbidden(current_user[1], tickets[found])
                         THEN Report("view", ticket_id, "forbidden", <<>>, <<>>)
                         ELSE Report("view", ticket_id, "ok", <<tickets[found]>>, <<>>)
    /\ pc' = "report"
    /\ UNCHANGED <<storeVars, current_user, now, hist>>
    /\ UNCHANGED <<writerVars, procs>>

\* update_ticket, with the entries of the edit menu drawn from these
update_ticket(user_sessions, agent_sessions) ==
    /\ pc = "menu"
    /\ current_user # None
    /\ LET tickets == load_tickets(ticketsFile)
           sessions == IF current_user[1].role = role_agent
                       THEN agent_sessions ELSE user_sessions
       IN  \E raw_id \in IdInputs :
              LET ticket_id == strip(raw_id)
                  found == find_ticket_by_id(ticket_id, tickets)
                  refused(msg) ==
                      /\ out' = Report("update", ticket_id, msg, <<>>, <<>>)
                      /\ UNCHANGED <<ticketsFile, auditFile, now>>
              IN  IF found = 0 THEN refused("not_found")
                  ELSE IF is_forbidden(current_user[1], tickets[found])
                  THEN refused("forbidden")
                  ELSE \E edits \in sessions :
                      LET old == tickets[found]
                          fin == edit_loop([ticket |-> old, changes_made |-> FALSE,
                                            trace |-> <<>>,
                                            role |-> current_user[1].role], edits)
                          ticket == [fin.ticket EXCEPT
                                        !.updated_at = utcnow_iso(now)]
                      IN  IF fin.changes_made
                          THEN /\ now < MaxClock
                               /\ ticketsFile' =
                                     save_tickets([tickets EXCEPT ![found] = ticket])
                               /\ auditFile' = AppendAll(auditFile,
                                     update_events(current_user, old, ticket, now))
                               /\ now' = now + 1
                               /\ out' = Report("update", ticket_id, "saved",
                                                <<old, ticket>>, fin.trace)
                          ELSE /\ out' = Report("update", ticket_id, "no_changes",
                                                <<old, fin.ticket>>, fin.trace)
                               /\ UNCHANGED <<ticketsFile, auditFile, now>>
    /\ pc' = "report"
    /\ UNCHANGED <<usersFile, current_user, hist>>
    /\ UNCHANGED <<writerVars, procs>>

UpdateTicket == update_ticket(UserSessions, AgentSessions)

DeleteTicket ==
    /\ pc = "menu"
    /\ current_user # None
    /\ LET tickets == load_tickets(ticketsFile)
           refused(arg, msg) ==
               /\ out' = Report("delete", arg, msg, <<>>, <<>>)
               /\ UNCHANGED <<ticketsFile, auditFile, now, hist>>
       IN  IF ~may_delete(current_user[1]) THEN refused(<<>>, "forbidden")
           ELSE \E raw_id \in IdInputs :
              LET ticket_id == strip(raw_id)
                  found == find_ticket_by_id(ticket_id, tickets)
              IN  IF found = 0 THEN refused(ticket_id, "not_found")
                  ELSE IF ~is_deletable(tickets[found])
                  THEN refused(ticket_id, "not_closed")
                  ELSE \E raw_confirm \in ConfirmInputs :
                      IF lower(strip(raw_confirm)) # <<"s">>
                      THEN refused(ticket_id, "cancelled")
                      ELSE /\ now < MaxClock
                           /\ ticketsFile' = save_tickets(remove_ticket(tickets, ticket_id))
                           /\ auditFile' = append_json_line(auditFile,
                                 log_action(current_user, "TICKET_DELETE", "ticket",
                                            ticket_id, "success", txt_deleted, now))
                           /\ now' = now + 1
                           /\ hist' = [hist EXCEPT !.removed = Append(@, ticket_id)]
                           /\ out' = Report("delete", ticket_id, "ok",
                                            <<tickets[found]>>, <<>>)
    /\ pc' = "report"
    /\ UNCHANGED <<usersFile, current_user>>
    /\ UNCHANGED <<writerVars, procs>>

txt_demo == <<"d","e","m","o","_">>

txt_demo_ran == <<"U","s","u","a","r","i","o"," ","e","j","e","c","u","t","o"," ",
                  "d","e","m","o","s","t","r","a","c","i","o","n"," ","d","e"," ",
                  "s","e","g","u","r","i","d","a","d"," ","o","p","c","i","o","n"," ">>

\* run_safety_demo: the demonstrations only print; each one run is logged
SafetyDemo ==
    /\ pc = "menu"
    /\ current_user # None
    /\ \E options \in DemoInputs :
          LET event(option) ==
                  log_action(current_user, "SECURITY_DEMO", "demo",
                             txt_demo \o str_of_int(option), "success",
                             txt_demo_ran \o str_of_int(option), now)
          IN  /\ options # <<>> => now < MaxClock
              /\ auditFile' = AppendAll(auditFile, Map(options, event))
              /\ now' = IF options # <<>> THEN now + 1 ELSE now
              /\ out' = Report("demo", options, "ok", <<>>, <<>>)
    /\ pc' = "report"
    /\ UNCHANGED <<usersFile, ticketsFile, current_user, hist>>
    /\ UNCHANGED <<writerVars, procs>>

Next ==
    \/ Menu
    \/ Register
    \/ Login
    \/ Exit
    \/ Logout
    \/ CreateTicket
    \/ ListTickets
    \/ ViewTicket
    \/ UpdateTicket
    \/ DeleteTicket
    \/ SafetyDemo

Spec == Init /\ [][Next]_vars

(***************************************************************************)
(* A run that starts on the files an earlier run left: ana (user, id 1)    *)
(* and bob (agent, id 2) are registered and up to MaxSeed tickets are in   *)
(* the store, with the ids create_ticket gave them.                        *)
(***************************************************************************)
\* a timestamp of the earlier run, k clock readings before this run's first
Earlier(k) == <<"-">> \o str_of_nat(k) \o <<"Z">>

SeedUser(id, username, role, k) ==
    [id            |-> id,
     username      |-> username,
     password_hash |-> hash_password(txt_secret),
     role          |-> role,
     created_at    |-> Earlier(k),
     updated_at    |-> Earlier(k)]

SeedUsers ==
    save_users(<<SeedUser(<<"1">>, txt_ana, role_user, 9),
                 SeedUser(<<"2">>, txt_bob, role_agent, 8)>>)

\* the owner and the status of a ticket the earlier run left
SeedKinds ==
    { <<<<"1">>, st_open>>, <<<<"1">>, st_closed>>, <<<<"2">>, st_in_progress>> }

SeedTicket(n, kind) ==
    [id          |-> str_of_int(n),
     owner_id    |-> kind[1],
     title       |-> <<"o","l","d">>,
     description |-> <<"w","h","y">>,
     status      |-> kind[2],
     priority    |-> <<"l","o","w">>,
     assignee_id |-> <<>>,
     created_at  |-> Earlier(8 - n),
     updated_at  |-> IF kind[2] = st_open THEN Earlier(8 - n) ELSE Earlier(5 - n)]

SeedStores ==
    UNION { { save_tickets([i \in 1..n |-> SeedTicket(i, kinds[i])]) :
                kinds \in [1..n -> SeedKinds] } : n \in 1..MaxSeed }

InitRunning ==
    \E tickets_file \in SeedStores :
        Start(SeedUsers, tickets_file, NoFile, MaxClock - RunOps,
              IdsOf(load_tickets(tickets_file)))

SpecRunning == InitRunning /\ [][Next]_vars

(***************************************************************************)
(* A run that starts on files that were edited by hand: ids that are not   *)
(* numerals or not the numerals str() writes, JSON numbers where strings   *)
(* are expected, records with fields missing, lines that are not records.  *)
(***************************************************************************)
txt_eve == <<"e","v","e">>

LegacyUser(id) ==
    ObjectLine([id            |-> id,
                username      |-> txt_eve,
                password_hash |-> hash_password(txt_secret),
                role          |-> role_agent])

LegacyUserStores ==
    { NoFile,
      [exists |-> TRUE, lines |-> <<LegacyUser(<<"x">>)>>],
      [exists |-> TRUE,
       lines |-> <<GarbageLine, LegacyUser(<<"0","7">>), BlankLine>>] }

LegacyTicket(id, status) ==
    ObjectLine([id       |-> id,
                owner_id |-> <<"1">>,
                title    |-> <<"o","l","d">>,
                status   |-> status])

LegacyLines ==
    { LegacyTicket(<<"x">>, st_open),
      LegacyTicket(<<"0","7">>, st_closed),
      LegacyTicket(JsonNum(1), st_open),
      ObjectLine([id |-> <<"9">>, owner_id |-> <<"1">>]),
      GarbageLine,
      NonObjectLine }

LegacyTicketStores ==
    {NoFile}
    \cup UNION { { [exists |-> TRUE, lines |-> ls] : ls \in [1..n -> LegacyLines] } :
                    n \in 0..MaxLegacy }

InitLegacy ==
    \E users_file \in LegacyUserStores, tickets_file \in LegacyTicketStores :
        Start(users_file, tickets_file, NoFile, MaxClock - RunOps, <<>>)

SpecLegacy == InitLegacy /\ [][Next]_vars

(***************************************************************************)
(* storage.py: write_json_lines one system call at a time, on the tickets  *)
(* file, with the process killed at any point of it.                       *)
(***************************************************************************)
WrittenTickets ==
    UNION { { [i \in 1..n |-> Ticket_to_dict(SeedTicket(i, kinds[i]))] :
                kinds \in [1..n -> SeedKinds] } : n \in 0..MaxWrite }

\* open(temp_path, "w"): the temporary file is created or emptied
WriteOpen ==
    /\ wpc = "idle"
    /\ \E records \in WrittenTickets :
          /\ wrecords' = records
          /\ wold' = ticketsFile
          /\ tmpFile' = [exists |-> TRUE, lines |-> <<>>]
          /\ wpc' = "writing"
    /\ UNCHANGED <<storeVars, current_user, now, pc, out, hist, procs>>

\* f.write(json_line + "\n") for the next record
WriteLine ==
    /\ wpc = "writing"
    /\ Len(tmpFile.lines) < Len(wrecords)
    /\ tmpFile' = [tmpFile EXCEPT
                     !.lines = Append(@, ObjectLine(wrecords[Len(@) + 1]))]
    /\ UNCHANGED <<storeVars, current_user, now, pc, out, hist, procs, wpc, wrecords, wold>>

\* the with block ends: the temporary file is closed
WriteClose ==
    /\ wpc = "writing"
    /\ Len(tmpFile.lines) = Len(wrecords)
    /\ wpc' = "written"
    /\ UNCHANGED <<storeVars, current_user, now, pc, out, hist, procs, tmpFile, wrecords, wold>>

\* if os.path.exists(path): os.remove(path)
WriteRemove ==
    /\ wpc = "written"
    /\ ticketsFile' = IF ticketsFile.exists THEN NoFile ELSE ticketsFile
    /\ wpc' = "removed"
    /\ UNCHANGED <<usersFile, auditFile, current_user, now, pc, out, hist, procs,
                   tmpFile, wrecords, wold>>

\* os.rename(temp_path, path)
WriteRename ==
    /\ wpc = "removed"
    /\ ticketsFile' = tmpFile
    /\ tmpFile' = NoFile
    /\ wpc' = "idle"
    /\ UNCHANGED <<usersFile, auditFile, current_user, now, pc, out, hist, procs,
                   wrecords, wold>>

\* the process is killed inside write_json_lines
Crash ==
    /\ wpc \in {"writing", "written", "removed"}
    /\ wpc' = "crashed"
    /\ UNCHANGED <<storeVars, current_user, now, pc, out, hist, procs, tmpFile, wrecords, wold>>

\* the program is started again on the files the crash left
Restart ==
    /\ wpc = "crashed"
    /\ wpc' = "idle"
    /\ UNCHANGED <<storeVars, current_user, now, pc, out, hist, procs, tmpFile, wrecords, wold>>

NextCrash ==
    \/ WriteOpen
    \/ WriteLine
    \/ WriteClose
    \/ WriteRemove
    \/ WriteRename
    \/ Crash
    \/ Restart

SpecCrash == InitRunning /\ [][NextCrash]_vars

(***************************************************************************)
(* Properties.                                                             *)
(***************************************************************************)
\* the tickets the store holds, as _load_tickets reads them
Persisted == load_tickets(ticketsFile)

PersistedNext == load_tickets(ticketsFile')

\* the persisted tickets with this id
WithId(tickets, id) == SelectSeq(tickets, LAMBDA t : t.id = id)

\* the handler that just ran was update_ticket and it got past the permission
\* check to the edit menu
Edited == out.op = "update" /\ out.result \in {"saved", "no_changes"}

\* C1: a ticket that is persisted with status closed is, after any step that
\* does not delete it, still persisted and still closed
C1_ClosedIsTerminal ==
    [][\A i \in 1..Len(Persisted) :
          Persisted[i].status = st_closed =>
              \/ /\ out'.op = "delete"
                 /\ out'.result = "ok"
                 /\ out'.arg = Persisted[i].id
              \/ LET after == WithId(PersistedNext, Persisted[i].id)
                 IN  /\ after # <<>>
                     /\ \A j \in 1..Len(after) : after[j].status = st_closed]_vars

\* an update session on a closed ticket asked for another status and was told
\* that a closed ticket cannot be reopened
C1_Witness ==
    /\ Edited
    /\ out.shown[1].status = st_closed
    /\ \E k \in 1..Len(out.trace) :
          /\ out.trace[k].option = 4
          /\ out.trace[k].to \in {st_open, st_in_progress}
          /\ out.trace[k].msg = "closed"
    /\ WithId(Persisted, out.arg)[1].status = st_closed

LegalPairs ==
    { <<st_open, st_in_progress>>, <<st_open, st_closed>>,
      <<st_in_progress, st_closed>> }

\* the status of the edited ticket after the k-th entry of the session
StatusAfter(k) ==
    IF k < Len(out.trace) /\ out.trace[k + 1].option = 4
    THEN out.trace[k + 1].from
    ELSE out.shown[2].status

\* C2: a status entry of an update session that asks for a valid status sets
\* the status exactly when (from, to) is a legal pair; asking for the current
\* status is answered with its own message and does not count as a change;
\* any other pair is rejected with the status left as it was.  The session
\* saves exactly when some entry was applied, and what is persisted is the
\* status the session ended with.
C2_StatusTransitions ==
    Edited =>
        /\ \A k \in 1..Len(out.trace) :
              LET e == out.trace[k]
              IN  (e.option = 4 /\ e.to \in {st_open, st_in_progress, st_closed}) =>
                      IF <<e.from, e.to>> \in LegalPairs
                      THEN e.msg = "updated" /\ StatusAfter(k) = e.to
                      ELSE IF e.from = e.to
                      THEN e.msg = "same" /\ StatusAfter(k) = e.from
                      ELSE e.msg \in {"closed", "illegal"} /\ StatusAfter(k) = e.from
        /\ out.result = "saved" <=>
              \E k \in 1..Len(out.trace) : out.trace[k].msg = "updated"
        /\ WithId(Persisted, out.arg)[1].status =
              IF out.result = "saved" THEN out.shown[2].status
              ELSE out.shown[1].status

\* a session moved an open ticket to in_progress and then asked for open again
C2_Witness ==
    /\ Edited
    /\ Len(out.trace) = 2
    /\ out.trace[1].from = st_open
    /\ out.trace[1].to = st_in_progress
    /\ out.trace[1].msg = "updated"
    /\ out.trace[2].to = st_open
    /\ out.trace[2].msg = "illegal"
    /\ WithId(Persisted, out.arg)[1].status = st_in_progress

\* a session that only asked for the status the ticket already had
C2_WitnessSame ==
    /\ out.op = "update"
    /\ out.result = "no_changes"
    /\ Len(out.trace) = 1
    /\ out.trace[1].msg = "same"

\* C3: when the process is killed inside write_json_lines on a path that held
\* a complete file, the path holds that file or the complete new one
C3_CrashLeavesOldOrNew ==
    (wpc = "crashed" /\ wold.exists) =>
        /\ ticketsFile.exists
        /\ ticketsFile \in {wold, write_json_lines(wrecords)}

\* the process was killed after os.remove and before os.rename
C3_Removed ==
    /\ wpc = "crashed"
    /\ wold.exists
    /\ ~ticketsFile.exists
    /\ tmpFile = write_json_lines(wrecords)

\* a handler of the session menu runs in this step
Handling == pc = "menu" /\ current_user # None

\* C4: view and update answer "not found" when no persisted ticket has the id
\* typed, and otherwise "forbidden" when the requester has role user and is
\* not the owner, in both cases with the store as it was; anyone else gets to
\* the ticket.  A step taken by a requester with role user shows only that
\* requester's tickets and leaves every other ticket as it was.
C4_OwnershipGate ==
    [][Handling =>
          LET usr == current_user[1]
              matches == WithId(Persisted, out'.arg)
          IN  /\ out'.op \in {"view", "update"} =>
                    IF matches = <<>>
                    THEN /\ out'.result = "not_found"
                         /\ out'.shown = <<>>
                         /\ ticketsFile' = ticketsFile
                    ELSE IF usr.role = role_user /\ matches[1].owner_id # usr.id
                    THEN /\ out'.result = "forbidden"
                         /\ out'.shown = <<>>
                         /\ ticketsFile' = ticketsFile
                    ELSE /\ out'.result \in {"ok", "saved", "no_changes"}
                         /\ out'.shown[1] = matches[1]
              /\ usr.role = role_user =>
                    /\ \A k \in 1..Len(out'.shown) :
                          out'.shown[k].owner_id = usr.id
                    /\ \A i \in 1..Len(Persisted) :
                          Persisted[i].owner_id # usr.id =>
                              /\ i <= Len(PersistedNext)
                              /\ PersistedNext[i] = Persisted[i]]_vars

\* a requester with role user asked to edit a ticket of somebody else
C4_Witness ==
    /\ out.op = "update"
    /\ out.result = "forbidden"
    /\ out.requester[1].role = role_user
    /\ WithId(Persisted, out.arg) # <<>>
    /\ WithId(Persisted, out.arg)[1].owner_id # out.requester[1].id

\* C5: delete asked by an agent for a persisted ticket that is not closed
\* answers "not closed" and leaves the tickets file as it was
C5_DeleteNeedsClosed ==
    [][(Handling /\ out'.op = "delete" /\ current_user[1].role = role_agent) =>
          LET matches == WithId(Persisted, out'.arg)
          IN  (matches # <<>> /\ matches[1].status # st_closed) =>
                  /\ out'.result = "not_closed"
                  /\ ticketsFile' = ticketsFile]_vars

\* an agent asked to delete a ticket that is open or in progress
C5_Witness ==
    /\ out.op = "delete"
    /\ out.result = "not_closed"
    /\ out.requester[1].role = role_agent
    /\ WithId(Persisted, out.arg) # <<>>
    /\ WithId(Persisted, out.arg)[1].status \in {st_open, st_in_progress}

\* C6: delete asked by a requester who is not an agent answers "forbidden"
\* before any id is read, and leaves the tickets file as it was
C6_DeleteNeedsAgent ==
    [][(Handling /\ out'.op = "delete" /\ current_user[1].role # role_agent) =>
          /\ out'.result = "forbidden"
          /\ out'.arg = <<>>
          /\ ticketsFile' = ticketsFile]_vars

\* a requester with role user who owns a closed ticket asked to delete
C6_Witness ==
    /\ out.op = "delete"
    /\ out.result = "forbidden"
    /\ out.requester[1].role = role_user
    /\ \E i \in 1..Len(Persisted) :
          /\ Persisted[i].owner_id = out.requester[1].id
          /\ Persisted[i].status = st_closed

\* C7: list shows a requester with role user the persisted tickets that
\* requester owns and shows an agent every persisted ticket, in the order of
\* the file, and leaves the three files as they were
C7_ListVisibility ==
    [][(Handling /\ out'.op = "list") =>
          LET usr == current_user[1]
              expected == IF usr.role = role_user
                          THEN SelectSeq(Persisted, LAMBDA t : t.owner_id = usr.id)
                          ELSE Persisted
          IN  /\ out'.shown = expected
              /\ out'.result = IF expected = <<>> THEN "empty" ELSE "ok"
              /\ UNCHANGED storeVars]_vars

\* a requester with role user listed a store that also holds a ticket of
\* somebody else
C7_Witness ==
    /\ out.op = "list"
    /\ out.requester[1].role = role_user
    /\ out.shown # <<>>
    /\ Len(out.shown) < Len(Persisted)

\* an agent listed a store of two tickets
C7_WitnessAgent ==
    /\ out.op = "list"
    /\ out.requester[1].role = role_agent
    /\ Len(out.shown) = 2
    /\ out.shown = Persisted

\* the decimal numerals of 1, 2, ..., 12
Numerals ==
    << <<"1">>, <<"2">>, <<"3">>, <<"4">>, <<"5">>, <<"6">>, <<"7">>, <<"8">>,
       <<"9">>, <<"1","0">>, <<"1","1">>, <<"1","2">> >>

\* no id among these is one int() accepts
NoNumericId(ids) == \A i \in 1..Len(ids) : ~int_parses(ids[i])

StartTicketIds == IdsOf(load_tickets(hist.tickets))

StartUserIds == IdsOf(load_users(hist.users))

\* C8: when the run starts on a tickets store in which no record has an id
\* int() accepts, the ids create_ticket has given out, with no ticket deleted
\* in between, are "1", "2", ..., in that order; likewise the ids
\* register_user has given out when the users store had no such id
C8_IdsCountFromOne ==
    /\ (NoNumericId(StartTicketIds) /\ hist.removed = <<>>) =>
           hist.issued = SubSeq(Numerals, 1, Len(hist.issued))
    /\ NoNumericId(StartUserIds) =>
           hist.registered = SubSeq(Numerals, 1, Len(hist.registered))

\* two tickets were created on a store that held a record with id "x"
C8_Witness ==
    /\ StartTicketIds # <<>>
    /\ NoNumericId(StartTicketIds)
    /\ hist.removed = <<>>
    /\ Len(hist.issued) = 2

\* two users were registered on a store that held a user with id "x"
C8_WitnessUsers ==
    /\ StartUserIds # <<>>
    /\ NoNumericId(StartUserIds)
    /\ Len(hist.registered) = 2

\* C9: every id create_ticket gives out is greater than every id it gave out
\* before (the ids of the tickets the run started with included)
C9_IdsMonotonic ==
    \A i, j \in 1..Len(hist.issued) :
        i < j => int_of(hist.issued[i]) < int_of(hist.issued[j])

\* a ticket was created after the ticket with the greatest id was deleted
C9_Reused ==
    /\ hist.removed # <<>>
    /\ \E i, j \in 1..Len(hist.issued) :
          i < j /\ hist.issued[i] = hist.issued[j]
    /\ out.op = "create"
    /\ out.result = "ok"
    /\ out.arg \in {hist.removed[k] : k \in 1..Len(hist.removed)}

Distinct(ids) == \A i, j \in 1..Len(ids) : ids[i] = ids[j] => i = j

\* no two persisted tickets and no two persisted users share an id, when
\* that was so in the stores the run started with (an empty store is one)
NoSharedId ==
    /\ Distinct(StartTicketIds) => Distinct(IdsOf(Persisted))
    /\ Distinct(StartUserIds) => Distinct(IdsOf(load_users(usersFile)))

\* the id create_ticket or register_user gives out in this step is the id of
\* no record its store held, whatever ids those are
GivesNewId ==
    /\ (pc = "menu" /\ out'.op = "create" /\ out'.result = "ok") =>
           /\ \A i \in 1..Len(Persisted) : Persisted[i].id # out'.arg
           /\ PersistedNext = Append(Persisted, out'.shown[1])
           /\ out'.shown[1].id = out'.arg
    /\ (pc = "menu" /\ out'.op = "register" /\ out'.result = "ok") =>
           /\ \A i \in 1..Len(load_users(usersFile)) :
                  load_users(usersFile)[i].id # out'.shown[1].id
           /\ load_users(usersFile') =
                  Append(load_users(usersFile), out'.shown[1])

\* C10: in every state of a run that starts on stores in which no two records
\* share an id (an empty store is one), no two persisted tickets and no two
\* persisted users share an id; and a create or register that succeeds gives
\* out an id that no record of its store has, also when the store holds ids
\* that are not numerals or not the numerals str() writes
C10_IdsUnique == []NoSharedId /\ [][GivesNewId]_vars

\* a ticket was created on a store that held the ids "x" and "07"
C10_Witness ==
    /\ out.op = "create"
    /\ out.result = "ok"
    /\ <<"x">> \in {StartTicketIds[i] : i \in 1..Len(StartTicketIds)}
    /\ <<"0","7">> \in {Persisted[i].id : i \in 1..Len(Persisted)}
    /\ out.arg = <<"8">>

(***************************************************************************)
(* auth.py called directly: register_user and login_user with arguments    *)
(* that no prompt has looked at, on a users store that starts empty.       *)
(***************************************************************************)
\* accounts one run registers
MaxAccounts == 2

txt_Ana == <<"A","n","a">>

txt_hunter == <<"h","u","n","t","e","r","2">>

\* n times the character c
Repeat(c, n) == [i \in 1..n |-> c]

CallUsernames ==
    { txt_ana, txt_Ana,
      <<"a","l">>,
      <<"a","-","b">>,
      <<"a","n","a","\n">>,
      <<"a",".","B","_","9">> \o Repeat("u", MaxUsernameLen - 5),
      <<"a",".","B","_","9">> \o Repeat("u", MaxUsernameLen - 4),
      <<>> }

CallPasswords ==
    { txt_secret, txt_hunter,
      <<"s","h","o","r","t">>,
      Repeat("p", MaxPasswordLen),
      Repeat("p", MaxPasswordLen + 1) }

CallRoles == {role_user, role_agent, <<"a","d","m","i","n">>, <<"U","s","e","r">>}

\* register_user(username, password, role)
RegisterCall ==
    /\ pc = "menu"
    /\ \E username \in CallUsernames, password \in CallPasswords, role \in CallRoles :
          LET r == register_user(username, password, role, usersFile, now)
          IN  /\ out' = Report("register", <<username, password, role>>, r.msg,
                               r.user, <<>>)
              /\ IF r.user # None
                 THEN /\ Len(load_users(usersFile)) < MaxAccounts
                      /\ usersFile' = r.file
                      /\ now' = now + 1
                      /\ hist' = [hist EXCEPT
                                    !.registered = Append(@, r.user[1].id),
                                    !.accounts = Append(@, <<username, password>>)]
                 ELSE UNCHANGED <<usersFile, now, hist>>
    /\ pc' = "report"
    /\ UNCHANGED <<ticketsFile, auditFile, current_user>>
    /\ UNCHANGED <<writerVars, procs>>

\* login_user(username, password)
LoginCall ==
    /\ pc = "menu"
    /\ \E username \in CallUsernames, password \in CallPasswords :
          LET found == login_user(username, password, usersFile)
          IN  out' = Report("login", <<username, password>>,
                            IF found # None THEN "ok" ELSE "failed", found, <<>>)
    /\ pc' = "report"
    /\ UNCHANGED <<storeVars, current_user, now, hist>>
    /\ UNCHANGED <<writerVars, procs>>

NextCalls ==
    \/ Menu
    \/ RegisterCall
    \/ LoginCall

SpecCalls == Init /\ [][NextCalls]_vars

\* the accounts the store holds, as _load_users reads them
Accounts == load_users(usersFile)

\* C11: no two persisted accounts have the same username, character for
\* character
C11_UsernamesUnique ==
    \A i, j \in 1..Len(Accounts) :
        Accounts[i].username = Accounts[j].username => i = j

\* two accounts are persisted whose usernames differ in the case of a letter
\* only, and a third registration with one of these usernames was refused
C11_Witness ==
    /\ Len(Accounts) = 2
    /\ {Accounts[1].username, Accounts[2].username} = {txt_ana, txt_Ana}
    /\ out.op = "register"
    /\ out.result = "conflict"
    /\ out.arg[1] = txt_ana

\* every account registered so far logs in with the username and the password
\* it was registered with, on this users file
StillAuthenticate(file) ==
    \A k \in 1..Len(hist.accounts) :
        LET found == login_user(hist.accounts[k][1], hist.accounts[k][2], file)
        IN  found # None /\ found[1].username = hist.accounts[k][1]

\* C12: a register_user call that is refused returns None and leaves the
\* users file as it was, so every account registered before still logs in
\* with its own password; a call whose arguments pass validation is refused
\* as a conflict exactly when an account with that very username is persisted,
\* whatever password and role the call brings
C12_RejectedRegister ==
    [][(pc = "menu" /\ out'.op = "register") =>
          LET present == \E i \in 1..Len(Accounts) :
                             Accounts[i].username = out'.arg[1]
              invalid == out'.result \in {"invalid_username", "invalid_password",
                                          "invalid_role"}
          IN  /\ out'.result = "conflict" => present
              /\ (present /\ ~invalid) => out'.result = "conflict"
              /\ out'.result # "ok" =>
                    /\ out'.shown = None
                    /\ usersFile' = usersFile
                    /\ StillAuthenticate(usersFile')]_vars

\* 'ana' was registered as a user with one password; a second registration of
\* 'ana' as an agent with another password was refused
C12_Witness ==
    /\ out.op = "register"
    /\ out.result = "conflict"
    /\ out.arg = <<txt_ana, txt_hunter, role_agent>>
    /\ Len(Accounts) = 1
    /\ Accounts[1].role = role_user
    /\ hist.accounts = <<<<txt_ana, txt_secret>>>>

\* a registration was refused for its role, with an account persisted
C12_WitnessInvalid ==
    /\ out.op = "register"
    /\ out.result = "invalid_role"
    /\ Len(Accounts) = 1

\* what the rule on usernames, passwords and roles asks of the arguments of
\* a register_user call
CharRule(username) ==
    \A i \in 1..Len(username) :
        username[i] \in DigitSet \cup UpperSet \cup LowerSet \cup {".", "_"}

UsernameRule(username) ==
    Len(username) >= 3 /\ Len(username) <= 30 /\ CharRule(username)

PasswordRule(password) == Len(password) >= 6 /\ Len(password) <= 64

RoleRule(role) == role \in {role_user, role_agent}

\* the answer of register_user to arguments that break a rule, the rules
\* taken in the order username, password, role
Verdict(username_ok, password_ok, role_ok, result) ==
    /\ ~username_ok => result = "invalid_username"
    /\ (username_ok /\ ~password_ok) => result = "invalid_password"
    /\ (username_ok /\ password_ok /\ ~role_ok) => result = "invalid_role"
    /\ (username_ok /\ password_ok /\ role_ok) => result \in {"ok", "conflict"}

\* C13: a register_user call gets past validation only with a username of 3
\* to 30 characters, each of them in [A-Za-z0-9._], a password of 6 to 64
\* characters and the role user or agent; otherwise it is refused with the
\* message of the first rule it breaks, in the order username, password, role
C13_RegisterValidates ==
    out.op = "register" =>
        Verdict(UsernameRule(out.arg[1]), PasswordRule(out.arg[2]),
                RoleRule(out.arg[3]), out.result)

\* an account was registered whose username ends with a newline
C13_TrailingNewline ==
    /\ out.op = "register"
    /\ out.result = "ok"
    /\ out.arg[1] = <<"a","n","a","\n">>
    /\ \E i \in 1..Len(Accounts) : Accounts[i].username = <<"a","n","a","\n">>

\* the same with one newline allowed at the end of the username
C13_ButForTheNewline ==
    out.op = "register" =>
        LET username == out.arg[1]
            core == IF username # <<>> /\ username[Len(username)] = "\n"
                    THEN SubSeq(username, 1, Len(username) - 1) ELSE username
        IN  Verdict(/\ Len(username) >= 3
                    /\ Len(username) <= 30
                    /\ core # <<>>
                    /\ CharRule(core),
                    PasswordRule(out.arg[2]), RoleRule(out.arg[3]), out.result)

\* C14: login_user returns the persisted account with exactly the username
\* given when the password given is the one it was registered with, returns
\* None both for a username nobody has and for another password, and leaves
\* the users file as it was
C14_Authenticate ==
    [][(pc = "menu" /\ out'.op = "login") =>
          LET username == out'.arg[1]
              password == out'.arg[2]
              registered == \E k \in 1..Len(hist.accounts) :
                                hist.accounts[k] = <<username, password>>
          IN  /\ IF registered
                 THEN /\ out'.shown # None
                      /\ out'.shown[1].username = username
                      /\ \E i \in 1..Len(Accounts) : Accounts[i] = out'.shown[1]
                      /\ out'.result = "ok"
                 ELSE out'.shown = None /\ out'.result = "failed"
              /\ usersFile' = usersFile]_vars

\* a login with the password of another account, and a login with a username
\* that differs from a registered one in case only, both answered None
C14_Witness ==
    /\ out.op = "login"
    /\ out.shown = None
    /\ hist.accounts = <<<<txt_ana, txt_secret>>, <<txt_Ana, txt_hunter>>>>
    /\ out.arg = <<txt_Ana, txt_secret>>

\* a login with a username nobody has
C14_WitnessUnknown ==
    /\ out.op = "login"
    /\ out.shown = None
    /\ Len(Accounts) = 1
    /\ \A i \in 1..Len(Accounts) : Accounts[i].username # out.arg[1]

\* the ids of these tickets
IdSet(tickets) == {tickets[i].id : i \in 1..Len(tickets)}

\* C15: a successful delete of the id T leaves no persisted ticket with id T;
\* as long as no ticket is created none gets that id again; and a view, an
\* update or an agent's delete of an id no persisted ticket has answers "not
\* found" and writes nothing.  So after a delete of T every view, update and
\* delete of T answers "not found" until the next create.
C15_DeletedStaysGone ==
    [][Handling =>
          /\ (out'.op = "delete" /\ out'.result = "ok") =>
                 /\ out'.arg \in IdSet(Persisted)
                 /\ out'.arg \notin IdSet(PersistedNext)
          /\ ~(out'.op = "create" /\ out'.result = "ok") =>
                 IdSet(PersistedNext) \subseteq IdSet(Persisted)
          /\ (/\ out'.op \in {"view", "update", "delete"}
              /\ out'.op = "delete" => current_user[1].role = role_agent
              /\ out'.arg \notin IdSet(Persisted)) =>
                 /\ out'.result = "not_found"
                 /\ ticketsFile' = ticketsFile]_vars

\* the agent deleted a ticket and then asked to delete the same id again
C15_Witness ==
    /\ out.op = "delete"
    /\ out.result = "not_found"
    /\ hist.removed = <<out.arg>>
    /\ Len(hist.issued) = Len(StartTicketIds)

\* the agent deleted a ticket and then asked to edit it
C15_WitnessUpdate ==
    /\ out.op = "update"
    /\ out.result = "not_found"
    /\ hist.removed = <<out.arg>>
    /\ Len(hist.issued) = Len(StartTicketIds)

\* the greatest number among the ids of these tickets, 0 when none is a number
MaxIdNumber(tickets) ==
    LET numbers == {int_of(tickets[i].id) :
                       i \in {k \in 1..Len(tickets) : int_parses(tickets[k].id)}}
                   \cup {0}
    IN  CHOOSE m \in numbers : \A n \in numbers : n <= m

\* C16: a create that succeeds appends exactly one ticket at the end of the
\* persisted sequence: owned by the requester, open, unassigned, created_at
\* equal to updated_at, its id the greatest id number of the store plus one;
\* a create refused for its title, description or priority leaves the tickets
\* file as it was
C16_CreateAppends ==
    [][(Handling /\ out'.op = "create") =>
          IF out'.result = "ok"
          THEN LET t == PersistedNext[Len(PersistedNext)]
               IN  /\ PersistedNext = Append(Persisted, t)
                   /\ t.owner_id = current_user[1].id
                   /\ t.status = st_open
                   /\ t.assignee_id = <<>>
                   /\ t.created_at = t.updated_at
                   /\ t.id = Numerals[MaxIdNumber(Persisted) + 1]
                   /\ out'.arg = t.id
          ELSE /\ out'.result \in {"invalid_title", "invalid_description",
                                   "invalid_priority"}
               /\ ticketsFile' = ticketsFile]_vars

\* the user with id 1 created a ticket on a store of two tickets
C16_Witness ==
    /\ out.op = "create"
    /\ out.result = "ok"
    /\ out.requester[1].id = <<"1">>
    /\ Len(Persisted) = 3
    /\ Persisted[3].id = <<"3">>
    /\ Persisted[3].owner_id = <<"1">>

\* a create was refused for its priority
C16_WitnessRefused ==
    /\ out.op = "create"
    /\ out.result = "invalid_priority"
    /\ Persisted # <<>>

\* C17: an update call in which no entry of the edit menu was accepted (no
\* entry at all, entries refused by validation, status requests that are
\* illegal or ask for the current status, or a call refused before the menu)
\* leaves the tickets file, the updated_at of the ticket included, and the
\* audit log as they were; the file is written only by a call in which some
\* entry was accepted
C17_SavedOnlyIfEdited ==
    [][(Handling /\ out'.op = "update") =>
          LET accepted == \E k \in 1..Len(out'.trace) :
                              out'.trace[k].msg = "updated"
          IN  /\ ~accepted =>
                    /\ out'.result # "saved"
                    /\ ticketsFile' = ticketsFile
                    /\ auditFile' = auditFile
              /\ ticketsFile' # ticketsFile => accepted
              /\ out'.result = "saved" =>
                    LET after == WithId(PersistedNext, out'.arg)[1]
                    IN  /\ accepted
                        /\ after = out'.shown[2]
                        /\ after.updated_at # out'.shown[1].updated_at]_vars

\* an update session whose only entry was a title of two characters: nothing
\* was saved and updated_at is what it was
C17_Witness ==
    /\ out.op = "update"
    /\ out.result = "no_changes"
    /\ Len(out.trace) = 1
    /\ out.trace[1].option = 1
    /\ out.trace[1].msg = "invalid"
    /\ WithId(Persisted, out.arg)[1] = out.shown[1]

\* an update session with no entry at all
C17_WitnessEmpty ==
    /\ out.op = "update"
    /\ out.result = "no_changes"
    /\ out.trace = <<>>

\* C18: a step changes the assignee_id of a ticket that stays persisted only
\* when it is an update saved for a requester with role agent; so a step of
\* any handler run for a requester with role user, and any step with nobody
\* logged in, leaves the assignee_id of every ticket as it was
C18_AssigneeOnlyByAgent ==
    [][ticketsFile' # ticketsFile =>
          LET before == Persisted
              after  == PersistedNext
          IN  \A i \in 1..Len(before) : \A j \in 1..Len(after) :
                 (/\ before[i].id = after[j].id
                  /\ before[i].assignee_id # after[j].assignee_id) =>
                     /\ Handling
                     /\ current_user[1].role = role_agent
                     /\ out'.op = "update"
                     /\ out'.result = "saved"
                     /\ out'.arg = before[i].id]_vars

\* the agent assigned a ticket and left; its owner, with role user, then went
\* through the edit menu of that ticket: the assignee is still there
C18_Witness ==
    /\ out.op = "update"
    /\ out.requester # None
    /\ out.requester[1].role = role_user
    /\ out.result \in {"saved", "no_changes"}
    /\ out.shown[1].assignee_id # <<>>
    /\ WithId(Persisted, out.arg)[1].assignee_id = out.shown[1].assignee_id

\* an update saved for a requester with role user
C18_WitnessSaved ==
    /\ out.op = "update"
    /\ out.requester # None
    /\ out.requester[1].role = role_user
    /\ out.result = "saved"
    /\ WithId(Persisted, out.arg)[1].assignee_id = out.shown[1].assignee_id

\* an update saved for the agent that changed the assignee
C18_WitnessAgent ==
    /\ out.op = "update"
    /\ out.result = "saved"
    /\ out.shown[2].assignee_id # out.shown[1].assignee_id

\* the audit events written at the clock reading of the update that was just
\* saved, for the ticket it saved
EventsOfUpdate ==
    SelectSeq(auditFile.lines,
              LAMBDA l : /\ l.data.entity = "ticket"
                         /\ l.data.entity_id = out.arg
                         /\ l.data.timestamp = out.shown[2].updated_at)

\* the ticket an update saved differs from the one it found in this field
Changed(field) == out.shown[2][field] # out.shown[1][field]

\* C19: an update that persisted a change of the title, the description, the
\* priority, the status or the assignee of a ticket has appended at least one
\* audit event for that ticket
C19_UpdateIsAudited ==
    (/\ out.op = "update"
     /\ out.result = "saved"
     /\ \E field \in {"title", "description", "priority", "status", "assignee_id"} :
           Changed(field)) =>
        EventsOfUpdate # <<>>

\* an update that persisted a new title and nothing else: the ticket file
\* holds the new title and the audit log has no event for it
C19_SilentTitle ==
    /\ out.op = "update"
    /\ out.result = "saved"
    /\ Changed("title")
    /\ WithId(Persisted, out.arg)[1].title = out.shown[2].title
    /\ EventsOfUpdate = <<>>

\* what the code does: one event for each of status, priority and assignee
\* that the saved ticket changed, in that order, and no other
C19_EventPerCategory ==
    (out.op = "update" /\ out.result = "saved") =>
        LET actions == [k \in 1..Len(EventsOfUpdate) |-> EventsOfUpdate[k].data.action]
        IN  actions =
               (IF Changed("status") THEN <<"TICKET_STATUS_CHANGE">> ELSE <<>>)
               \o (IF Changed("priority") THEN <<"TICKET_PRIORITY_CHANGE">> ELSE <<>>)
               \o (IF Changed("assignee_id") THEN <<"TICKET_ASSIGNEE_CHANGE">> ELSE <<>>)

\* the audit events this step appends
Appended ==
    SubSeq(auditFile'.lines, Len(auditFile.lines) + 1, Len(auditFile'.lines))

\* this step appends one event, with this action and these
\* user_id, username and role
AppendsOne(action, identity) ==
    /\ Len(Appended) = 1
    /\ Appended[1].kind = "object"
    /\ Appended[1].data.action = action
    /\ <<Appended[1].data.user_id, Appended[1].data.username,
         Appended[1].data.role>> = identity

Nobody == <<anonymous, unknown, unknown>>

IdentityOf(account) == <<account.id, account.username, account.role>>

\* C20: a successful registration, a login attempt, a successful create and a
\* successful delete each append one audit event and leave the earlier events
\* as they were; the events of a registration and of a failed login name
\* anonymous/unknown/unknown, the event of a successful login names the
\* persisted account with the username typed, and the events of create and
\* delete name the account of the session
C20_OneEventEach ==
    [][pc = "menu" =>
          /\ auditFile.lines =
                SubSeq(auditFile'.lines, 1, Len(auditFile.lines))
          /\ (out'.op = "register" /\ out'.result = "ok") =>
                AppendsOne("REGISTER", Nobody)
          /\ (out'.op = "login" /\ out'.result = "failed") =>
                AppendsOne("LOGIN_FAILED", Nobody)
          /\ (out'.op = "login" /\ out'.result = "ok") =>
                \E i \in 1..Len(Accounts) :
                    /\ Accounts[i].username = out'.arg
                    /\ AppendsOne("LOGIN", IdentityOf(Accounts[i]))
          /\ (out'.op = "create" /\ out'.result = "ok") =>
                AppendsOne("TICKET_CREATE", IdentityOf(current_user[1]))
          /\ (out'.op = "delete" /\ out'.result = "ok") =>
                AppendsOne("TICKET_DELETE", IdentityOf(current_user[1]))]_vars

\* the audit log of a run in which an agent registered, logged in, created a
\* ticket, closed it and deleted it
C20_Witness ==
    /\ out.op = "delete"
    /\ out.result = "ok"
    /\ [k \in 1..Len(auditFile.lines) |-> auditFile.lines[k].data.action] =
          <<"REGISTER", "LOGIN", "TICKET_CREATE", "TICKET_STATUS_CHANGE",
            "TICKET_DELETE">>
    /\ [k \in 1..Len(auditFile.lines) |-> auditFile.lines[k].data.user_id] =
          <<anonymous, <<"1">>, <<"1">>, <<"1">>, <<"1">>>>

\* a failed login followed by a successful one
C20_WitnessLogin ==
    /\ out.op = "login"
    /\ out.result = "ok"
    /\ Len(auditFile.lines) >= 2
    /\ auditFile.lines[Len(auditFile.lines) - 1].data.action = "LOGIN_FAILED"
    /\ auditFile.lines[Len(auditFile.lines) - 1].data.role = unknown
    /\ auditFile.lines[Len(auditFile.lines)].data.role = out.requester[1].role

\* the username a LOGIN_FAILED event was logged for
AttemptOf(event) ==
    SubSeq(event.details, Len(txt_login_failed) + 1, Len(event.details))

\* a LOGIN_FAILED event without its timestamp and without the username that
\* was tried
ShapeOf(event) ==
    [user_id   |-> event.user_id,
     username  |-> event.username,
     role      |-> event.role,
     action    |-> event.action,
     entity    |-> event.entity,
     entity_id |-> event.entity_id,
     status    |-> event.status,
     details   |-> SubSeq(event.details, 1, Len(event.details) - Len(AttemptOf(event)))]

\* some persisted account has this username
Known(username) ==
    \E i \in 1..Len(Accounts) : Accounts[i].username = username

\* C21: the event of a failed login with the username of an account (a wrong
\* password) differs from the event of every earlier failed login with a
\* username no account has, in a field other than the timestamp and the
\* username tried
C21_FailuresDistinguished ==
    (out.op = "login" /\ out.result = "failed" /\ Known(out.arg)) =>
        LET events == auditFile.lines
            last == events[Len(events)].data
        IN  \A k \in 1..(Len(events) - 1) :
               (/\ events[k].data.action = "LOGIN_FAILED"
                /\ ~Known(AttemptOf(events[k].data))) =>
                   ShapeOf(events[k].data) # ShapeOf(last)

\* a login with a username no account has, then a login with the username of
\* an account and a wrong password: two events that differ in nothing but the
\* timestamp and the username
C21_SameEvent ==
    /\ out.op = "login"
    /\ out.result = "failed"
    /\ Known(out.arg)
    /\ Len(auditFile.lines) >= 2
    /\ LET events == auditFile.lines
           last == events[Len(events)].data
           before == events[Len(events) - 1].data
       IN  /\ last.action = "LOGIN_FAILED"
           /\ AttemptOf(last) = out.arg
           /\ before.action = "LOGIN_FAILED"
           /\ ~Known(AttemptOf(before))
           /\ ShapeOf(before) = ShapeOf(last)
           /\ before.timestamp # last.timestamp

\* C22: every step leaves the audit events that were in the log as the first
\* events of the log, in the same order and unchanged; the log is never
\* removed and never gets shorter
C22_AuditAppendOnly ==
    [][/\ auditFile.exists => auditFile'.exists
       /\ Len(auditFile'.lines) >= Len(auditFile.lines)
       /\ SubSeq(auditFile'.lines, 1, Len(auditFile.lines)) = auditFile.lines]_vars

\* a log of three events written by three handlers, one after the other
C22_Witness ==
    /\ auditFile.exists
    /\ Len(auditFile.lines) = 3
    /\ \A k \in 1..3 : auditFile.lines[k].data.timestamp = utcnow_iso(now - 4 + k)
    /\ out.op \in {"create", "update", "delete"}
    /\ auditFile.lines[3].data.entity_id = out.arg

(***************************************************************************)
(* read_json_lines called on files of every make: lines that hold a JSON   *)
(* object, lines that hold another JSON value, lines json.loads refuses,   *)
(* blank lines, and lines whose bytes are not UTF-8.                       *)
(***************************************************************************)
MaxLines == 3

\* a line whose bytes the utf-8 codec refuses
UndecodableLine == [kind |-> "undecodable", data |-> <<>>]

\* read_json_lines: iterating the file opened with encoding="utf-8" raises
\* UnicodeDecodeError at such a line; only json.JSONDecodeError is caught, so
\* the call raises and read_json_lines(file) is not returned
read_json_lines_raises(file) ==
    /\ file.exists
    /\ \E k \in 1..Len(file.lines) : file.lines[k].kind = "undecodable"

ReadLines ==
    { ObjectLine([id |-> <<"1">>]), ObjectLine([id |-> <<"2">>]),
      NonObjectLine, GarbageLine, BlankLine, UndecodableLine }

ReadFiles ==
    {NoFile} \cup
    UNION { { [exists |-> TRUE, lines |-> ls] : ls \in [1..n -> ReadLines] } :
              n \in 0..MaxLines }

InitRead ==
    \E file \in ReadFiles : Start(NoFile, file, NoFile, 0, <<>>)

\* one call of read_json_lines on the file
ReadCall ==
    /\ pc = "menu"
    /\ out' = IF read_json_lines_raises(ticketsFile)
              THEN Report("read", <<>>, "raises", <<>>, <<>>)
              ELSE Report("read", <<>>, "ok", read_json_lines(ticketsFile), <<>>)
    /\ pc' = "report"
    /\ UNCHANGED <<storeVars, current_user, now, hist>>
    /\ UNCHANGED <<writerVars, procs>>

NextRead == Menu \/ ReadCall

SpecRead == InitRead /\ [][NextRead]_vars

\* the lines of the file that are not blank and hold one JSON value
ParsingLines ==
    SelectSeq(ticketsFile.lines, LAMBDA l : l.kind \in {"object", "nonobject"})

\* C23: read_json_lines returns; for a missing file it returns the empty
\* sequence, and for a file that exists the lines that are not blank and
\* parse, in file order, none left out and none added
C23_ReadSkipsBadLines ==
    out.op = "read" =>
        /\ out.result = "ok"
        /\ ~ticketsFile.exists => out.shown = <<>>
        /\ ticketsFile.exists => out.shown = ParsingLines

\* a file with two records and between them a line that is not UTF-8: the
\* call raised and returned neither record
C23_LoadFails ==
    /\ out.op = "read"
    /\ out.result = "raises"
    /\ ticketsFile.lines =
          <<ObjectLine([id |-> <<"1">>]), UndecodableLine, ObjectLine([id |-> <<"2">>])>>

\* the same for files whose lines are all UTF-8
C23_ButForDecoding ==
    (/\ out.op = "read"
     /\ \A k \in 1..Len(ticketsFile.lines) : ticketsFile.lines[k] # UndecodableLine) =>
        /\ out.result = "ok"
        /\ ~ticketsFile.exists => out.shown = <<>>
        /\ ticketsFile.exists => out.shown = ParsingLines

\* a file with a record, a line json.loads refuses, a blank line and a record
C23_SkippedLines ==
    /\ out.op = "read"
    /\ out.result = "ok"
    /\ ticketsFile.lines =
          <<ObjectLine([id |-> <<"1">>]), GarbageLine, ObjectLine([id |-> <<"2">>])>>
    /\ out.shown = <<ObjectLine([id |-> <<"1">>]), ObjectLine([id |-> <<"2">>])>>

(***************************************************************************)
(* _save_tickets and _save_users called with records made in memory, then  *)
(* the store loaded again.  A dataclass does not check its fields, so the  *)
(* records include ones with a number for an id and with an empty field.   *)
(***************************************************************************)
MaxRecords == 2

RoundTripTickets ==
    { [id          |-> id,
       owner_id    |-> <<"1">>,
       title       |-> title,
       description |-> <<"w","h","y">>,
       status      |-> st_open,
       priority    |-> <<"l","o","w">>,
       assignee_id |-> assignee_id,
       created_at  |-> utcnow_iso(1),
       updated_at  |-> utcnow_iso(2)] :
         id \in {<<"0","7">>, JsonNum(3)},
         title \in {<<"o","l","d">>, <<>>},
         assignee_id \in {<<>>, <<"2">>} }

RoundTripUsers ==
    { [id            |-> id,
       username      |-> account[1],
       password_hash |-> hash_password(txt_secret),
       role          |-> account[2],
       created_at    |-> utcnow_iso(1),
       updated_at    |-> utcnow_iso(1)] :
         id \in {<<"1">>, JsonNum(2)},
         account \in {<<txt_ana, role_user>>, <<txt_bob, role_agent>>} }

SeqsUpTo(S, n) == UNION { [1..k -> S] : k \in 0..n }

\* _save_tickets(tickets), then _load_tickets()
SaveTicketsCall ==
    /\ pc = "menu"
    /\ \E tickets \in SeqsUpTo(RoundTripTickets, MaxRecords) :
          /\ ticketsFile' = save_tickets(tickets)
          /\ out' = Report("save_tickets", tickets, "ok",
                           load_tickets(save_tickets(tickets)), <<>>)
    /\ pc' = "report"
    /\ UNCHANGED <<usersFile, auditFile, current_user, now, hist>>
    /\ UNCHANGED <<writerVars, procs>>

\* _save_users(users), then _load_users()
SaveUsersCall ==
    /\ pc = "menu"
    /\ \E users \in SeqsUpTo(RoundTripUsers, MaxRecords) :
          /\ usersFile' = save_users(users)
          /\ out' = Report("save_users", users, "ok",
                           load_users(save_users(users)), <<>>)
    /\ pc' = "report"
    /\ UNCHANGED <<ticketsFile, auditFile, current_user, now, hist>>
    /\ UNCHANGED <<writerVars, procs>>

NextRoundTrip == Menu \/ SaveTicketsCall \/ SaveUsersCall

SpecRoundTrip == Init /\ [][NextRoundTrip]_vars

\* a value that is a str
IsStr(v) == v = <<>> \/ v[1] # "#num"

\* a record whose fields are all strings and whose fields in `required` are
\* not empty
ValidRecord(r, required) ==
    /\ \A f \in DOMAIN r : IsStr(r[f])
    /\ \A f \in required : r[f] # <<>>

ValidTicket(t) == ValidRecord(t, {"id", "owner_id", "title"})

ValidUser(u) == ValidRecord(u, {"id", "username", "password_hash"})

\* C24: from_dict(to_dict(r)) is r for every valid ticket and every valid
\* account r, and a store written from a sequence of valid records loads as
\* that sequence
C24_RoundTrip ==
    /\ (/\ out.op = "save_tickets"
        /\ \A k \in 1..Len(out.arg) : ValidTicket(out.arg[k])) =>
           /\ \A k \in 1..Len(out.arg) :
                 Ticket_from_dict(Ticket_to_dict(out.arg[k])) = out.arg[k]
           /\ out.shown = out.arg
           /\ load_tickets(ticketsFile) = out.arg
    /\ (/\ out.op = "save_users"
        /\ \A k \in 1..Len(out.arg) : ValidUser(out.arg[k])) =>
           /\ \A k \in 1..Len(out.arg) :
                 User_from_dict(User_to_dict(out.arg[k])) = out.arg[k]
           /\ out.shown = out.arg
           /\ load_users(usersFile) = out.arg

\* two valid tickets, the second one assigned and with an id that is not the
\* numeral str() writes, saved and loaded
C24_Witness ==
    /\ out.op = "save_tickets"
    /\ Len(out.arg) = 2
    /\ ValidTicket(out.arg[1]) /\ ValidTicket(out.arg[2])
    /\ out.arg[2].assignee_id = <<"2">>
    /\ out.arg[2].id = <<"0","7">>
    /\ out.shown = out.arg

\* two valid accounts saved and loaded
C24_WitnessUsers ==
    /\ out.op = "save_users"
    /\ Len(out.arg) = 2
    /\ ValidUser(out.arg[1]) /\ ValidUser(out.arg[2])
    /\ out.arg[1].role # out.arg[2].role
    /\ out.shown = out.arg

\* a ticket made with a number for an id comes back with a string, and a
\* ticket with an empty title does not come back
C24_WitnessInvalid ==
    /\ out.op = "save_tickets"
    /\ Len(out.arg) = 2
    /\ out.arg[1].id = JsonNum(3)
    /\ out.arg[1].title # <<>>
    /\ out.arg[2].title = <<>>
    /\ Len(out.shown) = 1
    /\ out.shown[1].id = <<"3">>

\* C25: every persisted ticket has a status among open, in_progress, closed
\* and a priority among low, medium, high, and every persisted account has
\* the role user or agent
C25_EnumFields ==
    /\ \A i \in 1..Len(Persisted) :
          /\ Persisted[i].status \in {st_open, st_in_progress, st_closed}
          /\ Persisted[i].priority \in
                {<<"l","o","w">>, <<"m","e","d","i","u","m">>, <<"h","i","g","h">>}
    /\ \A i \in 1..Len(Accounts) :
          Accounts[i].role \in {role_user, role_agent}

\* accounts of both roles, and a ticket created with the priority typed as
\* " High" whose status an update has changed
C25_Witness ==
    /\ {Accounts[i].role : i \in 1..Len(Accounts)} = {role_user, role_agent}
    /\ out.op = "update"
    /\ out.result = "saved"
    /\ Len(Persisted) = 1
    /\ Persisted[1].priority = <<"h","i","g","h">>
    /\ Persisted[1].status # st_open

\* an update session that asked for the priority "asap": nothing was saved
C25_WitnessRefused ==
    /\ out.op = "update"
    /\ out.result = "no_changes"
    /\ Len(out.trace) = 1
    /\ out.trace[1].option = 3
    /\ out.trace[1].to = <<"a","s","a","p">>
    /\ out.trace[1].msg = "invalid"

(***************************************************************************)
(* The session flow with titles and descriptions at the limits: longer     *)
(* than the maximum, shorter than the minimum once stripped, and with a    *)
(* carriage return inside.                                                  *)
(***************************************************************************)
LongTitle ==
    <<" ">> \o Repeat("t", 60) \o <<"\r">> \o Repeat("u", 60) \o <<" ">>

LongDescription ==
    Repeat("d", 250) \o <<"\r","\n">> \o Repeat("e", 250)

TextTitles == {LongTitle, <<"a","b"," ">>}

TextDescriptions == {LongDescription, <<"\r","n","o","\r">>}

TextEdits ==
    {[option |-> 1, text |-> x] : x \in TextTitles}
    \cup {[option |-> 2, text |-> x] : x \in TextDescriptions \cup {<<"a","\r","b">>}}

TextSessions == {<<e>> : e \in TextEdits}

CreateTexts == create_ticket(TextTitles, TextDescriptions, {<<"l","o","w">>})

UpdateTexts == update_ticket(TextSessions, TextSessions)

NextTexts == Menu \/ Register \/ Login \/ CreateTexts \/ UpdateTexts

SpecTexts == Init /\ [][NextTexts]_vars

NoLineBreak(text) ==
    \A k \in 1..Len(text) : text[k] \notin {"\r", "\n"}

\* C26: the title of every persisted ticket has 3 to 100 characters, its
\* description 3 to 500, and neither holds a carriage return or a line feed
C26_TextLimits ==
    \A i \in 1..Len(Persisted) :
        /\ Len(Persisted[i].title) >= 3
        /\ Len(Persisted[i].title) <= 100
        /\ NoLineBreak(Persisted[i].title)
        /\ Len(Persisted[i].description) >= 3
        /\ Len(Persisted[i].description) <= 500
        /\ NoLineBreak(Persisted[i].description)

\* a ticket created from a title of 121 characters and a description of 502:
\* the first 100 and the first 500 are stored, with blanks for the line breaks
C26_Witness ==
    /\ out.op = "create"
    /\ out.result = "ok"
    /\ Len(Persisted) = 1
    /\ Persisted[1].title = Repeat("t", 60) \o <<" ">> \o Repeat("u", 39)
    /\ Persisted[1].description =
          Repeat("d", 250) \o <<" ", " ">> \o Repeat("e", 248)

\* the description replaced by an update with "a", carriage return, "b"
C26_WitnessEdit ==
    /\ out.op = "update"
    /\ out.result = "saved"
    /\ WithId(Persisted, out.arg)[1].description = <<"a"," ","b">>

\* an update that asked for the title "ab ": refused, the title stays
C26_WitnessRefused ==
    /\ out.op = "update"
    /\ out.result = "no_changes"
    /\ Len(out.trace) = 1
    /\ out.trace[1].option = 1
    /\ out.trace[1].to = <<"a","b">>
    /\ Len(WithId(Persisted, out.arg)[1].title) = 100

(***************************************************************************)
(* update_ticket with sessions of several entries: two status changes with *)
(* a priority change between them, a change that is taken back, a change   *)
(* to the value the field has.                                              *)
(***************************************************************************)
MixedSessions ==
    { <<[option |-> 4, text |-> st_in_progress],
        [option |-> 3, text |-> <<"h","i","g","h">>],
        [option |-> 4, text |-> st_closed]>>,
      <<[option |-> 3, text |-> <<"h","i","g","h">>],
        [option |-> 3, text |-> <<"l","o","w">>]>>,
      <<[option |-> 3, text |-> <<"l","o","w">>]>>,
      <<[option |-> 1, text |-> <<"f","i","x">>]>>,
      <<[option |-> 5, text |-> <<"2">>],
        [option |-> 3, text |-> <<"m","e","d","i","u","m">>]>>,
      <<[option |-> 5, text |-> <<"2">>],
        [option |-> 5, text |-> <<" ">>]>>,
      <<[option |-> 4, text |-> st_closed],
        [option |-> 4, text |-> st_open]>> }

UpdateMixed ==
    update_ticket({es \in MixedSessions :
                      \A i \in 1..Len(es) : es[i].option <= max_option(role_user)},
                  MixedSessions)

NextEdits == Menu \/ Login \/ Exit \/ UpdateMixed

SpecEdits == InitRunning /\ [][NextEdits]_vars

\* the events this step appends that have this action
AppendedOf(action) ==
    SelectSeq(Appended, LAMBDA l : l.data.action = action)

\* this step appends one event with this action if the field differs between
\* the two tickets and none if it does not
OneIfChanged(action, field, before, after) ==
    Len(AppendedOf(action)) = (IF before[field] # after[field] THEN 1 ELSE 0)

\* C27: an update call appends, for each of status, priority and assignee,
\* one event when the value the ticket is saved with differs from the value
\* it was found with and none when it does not, and no other event; the
\* status event names the status found and the status saved
C27_EventPerCategory ==
    [][(Handling /\ out'.op = "update") =>
          IF out'.result = "saved"
          THEN LET before == WithId(Persisted, out'.arg)[1]
                   after  == WithId(PersistedNext, out'.arg)[1]
               IN  /\ OneIfChanged("TICKET_STATUS_CHANGE", "status", before, after)
                   /\ OneIfChanged("TICKET_PRIORITY_CHANGE", "priority", before, after)
                   /\ OneIfChanged("TICKET_ASSIGNEE_CHANGE", "assignee_id",
                                   before, after)
                   /\ Len(Appended) =
                         Len(AppendedOf("TICKET_STATUS_CHANGE"))
                         + Len(AppendedOf("TICKET_PRIORITY_CHANGE"))
                         + Len(AppendedOf("TICKET_ASSIGNEE_CHANGE"))
                   /\ \A k \in 1..Len(Appended) :
                         /\ Appended[k].data.entity_id = out'.arg
                         /\ Appended[k].data.action = "TICKET_STATUS_CHANGE" =>
                               Appended[k].data.details =
                                  txt_ticket \o out'.arg \o txt_colon
                                     \o before.status \o txt_arrow \o after.status
          ELSE Appended = <<>>]_vars

\* one call that took a ticket from open to in_progress, raised its priority
\* and closed it: two events, the status event says open -> closed
C27_Witness ==
    /\ out.op = "update"
    /\ out.result = "saved"
    /\ Len(out.trace) = 3
    /\ out.shown[1].status = st_open
    /\ out.shown[2].status = st_closed
    /\ Len(EventsOfUpdate) = 2
    /\ EventsOfUpdate[1].data.action = "TICKET_STATUS_CHANGE"
    /\ EventsOfUpdate[1].data.details =
          txt_ticket \o out.arg \o txt_colon \o st_open \o txt_arrow \o st_closed
    /\ EventsOfUpdate[2].data.action = "TICKET_PRIORITY_CHANGE"

\* one call that assigned the ticket and took the assignment back: saved,
\* no event
C27_WitnessBack ==
    /\ out.op = "update"
    /\ out.result = "saved"
    /\ Len(out.trace) = 2
    /\ out.trace[1].option = 5
    /\ out.trace[2].option = 5
    /\ out.shown[2].assignee_id = out.shown[1].assignee_id
    /\ EventsOfUpdate = <<>>

(***************************************************************************)
(* The program started twice on the same store.  Each process is logged in *)
(* and runs one ticket handler; the handler is two steps, from its         *)
(* _load_tickets() to the prompt or statement before _save_tickets(), and  *)
(* from _save_tickets() to its last print.  Nothing locks the file between *)
(* the two.  A call that returns before it saves takes no part.            *)
(***************************************************************************)
RaceTitles == <<<<"o","n","e">>, <<"t","w","o">>>>

RaceSessions ==
    { <<[option |-> 4, text |-> st_closed]>>,
      <<[option |-> 3, text |-> <<"h","i","g","h">>]>> }

\* the accounts the processes can be logged in as
RaceRequesters == {Some(Accounts[i]) : i \in 1..Len(Accounts)}

\* a variant that reads the file again and adds to it what it does not hold
tickets_saved_merged(tickets, file) ==
    load_tickets(file)
        \o SelectSeq(tickets,
                     LAMBDA t : \A k \in 1..Len(load_tickets(file)) :
                                    load_tickets(file)[k] # t)

\* _save_tickets(tickets): the list in memory is written whole; the file as
\* it is by now is not read again
tickets_saved(tickets, file) == tickets

\* create_ticket up to _save_tickets
RaceLoadCreate(p) ==
    /\ procs[p].pc = "idle"
    /\ \E requester \in RaceRequesters :
          LET tickets == load_tickets(ticketsFile)
              title == sanitize_text_field(RaceTitles[p], MaxTitleLen)
              new_ticket == [id          |-> next_ticket_id(tickets),
                             owner_id    |-> requester[1].id,
                             title       |-> title,
                             description |-> <<"w","h","y">>,
                             status      |-> st_open,
                             priority    |-> <<"l","o","w">>,
                             assignee_id |-> <<>>,
                             created_at  |-> utcnow_iso(now),
                             updated_at  |-> utcnow_iso(now)]
          IN  procs' = [procs EXCEPT ![p] =
                 [pc |-> "loaded", op |-> "create", requester |-> requester,
                  arg |-> new_ticket.id, tickets |-> tickets,
                  result |-> Append(tickets, new_ticket), old |-> <<>>,
                  wrote |-> 0]]
    /\ UNCHANGED <<storeVars, current_user, now, pc, out, hist, writerVars>>

\* update_ticket up to `if changes_made`, for a session that changed something
RaceLoadUpdate(p) ==
    /\ procs[p].pc = "idle"
    /\ \E requester \in RaceRequesters, raw_id \in IdInputs, edits \in RaceSessions :
          LET tickets == load_tickets(ticketsFile)
              ticket_id == strip(raw_id)
              found == find_ticket_by_id(ticket_id, tickets)
          IN  /\ found # 0
              /\ ~is_forbidden(requester[1], tickets[found])
              /\ LET fin == edit_loop([ticket |-> tickets[found],
                                       changes_made |-> FALSE, trace |-> <<>>,
                                       role |-> requester[1].role], edits)
                 IN  /\ fin.changes_made
                     /\ procs' = [procs EXCEPT ![p] =
                           [pc |-> "loaded", op |-> "update",
                            requester |-> requester, arg |-> ticket_id,
                            tickets |-> tickets,
                            result |-> [tickets EXCEPT ![found] = fin.ticket],
                            old |-> <<tickets[found]>>, wrote |-> 0]]
    /\ UNCHANGED <<storeVars, current_user, now, pc, out, hist, writerVars>>

\* delete_ticket up to _save_tickets, confirmed with "s"
RaceLoadDelete(p) ==
    /\ procs[p].pc = "idle"
    /\ \E requester \in RaceRequesters, raw_id \in IdInputs :
          LET tickets == load_tickets(ticketsFile)
              ticket_id == strip(raw_id)
              found == find_ticket_by_id(ticket_id, tickets)
          IN  /\ may_delete(requester[1])
              /\ found # 0
              /\ is_deletable(tickets[found])
              /\ procs' = [procs EXCEPT ![p] =
                    [pc |-> "loaded", op |-> "delete", requester |-> requester,
                     arg |-> ticket_id, tickets |-> tickets,
                     result |-> remove_ticket(tickets, ticket_id),
                     old |-> <<tickets[found]>>, wrote |-> 0]]
    /\ UNCHANGED <<storeVars, current_user, now, pc, out, hist, writerVars>>

\* from _save_tickets to the last log_action of the handler
RaceSave(p) ==
    /\ procs[p].pc = "loaded"
    /\ now < MaxClock
    /\ LET me == procs[p]
           stamped(t) == IF me.op = "update" /\ t.id = me.arg
                         THEN [t EXCEPT !.updated_at = utcnow_iso(now)] ELSE t
           tickets == [k \in 1..Len(me.result) |-> stamped(me.result[k])]
           events ==
               IF me.op = "create"
               THEN <<log_action(me.requester, "TICKET_CREATE", "ticket", me.arg,
                                 "success",
                                 txt_title \o Take(WithId(tickets, me.arg)[1].title,
                                                   DetailsTitleLen)
                                     \o txt_priority
                                     \o WithId(tickets, me.arg)[1].priority, now)>>
               ELSE IF me.op = "update"
               THEN update_events(me.requester, me.old[1],
                                  WithId(tickets, me.arg)[1], now)
               ELSE <<log_action(me.requester, "TICKET_DELETE", "ticket", me.arg,
                                 "success", txt_deleted, now)>>
       IN  /\ ticketsFile' = save_tickets(tickets_saved(tickets, ticketsFile))
           /\ auditFile' = AppendAll(auditFile, events)
           /\ procs' = [procs EXCEPT ![p] =
                 [me EXCEPT !.pc = "done", !.result = tickets, !.wrote = now + 1]]
    /\ now' = now + 1
    /\ UNCHANGED <<usersFile, current_user, pc, out, hist, writerVars>>

NextRace ==
    \E p \in Procs :
        \/ RaceLoadCreate(p)
        \/ RaceLoadUpdate(p)
        \/ RaceLoadDelete(p)
        \/ RaceSave(p)

SpecRace == InitRunning /\ [][NextRace]_vars

\* both handlers ran to their end, each having loaded the store before the
\* other saved
BothLoadedFirst ==
    /\ \A p \in Procs : procs[p].pc = "done"
    /\ procs[1].tickets = procs[2].tickets

\* the process that saved last
LastWriter == CHOOSE p \in Procs : \A q \in Procs : procs[q].wrote <= procs[p].wrote

FirstWriter == CHOOSE p \in Procs : p # LastWriter

\* C28: when two handlers load the store before either saves, the store ends
\* as the list of the one that saved last: what it loaded with its own change
\* and nothing of what the other saved
C28_LastWriterWins ==
    BothLoadedFirst =>
        /\ Persisted = procs[LastWriter].result
        /\ \A k \in 1..Len(Persisted) :
              \/ \E j \in 1..Len(procs[LastWriter].tickets) :
                    Persisted[k] = procs[LastWriter].tickets[j]
              \/ Persisted[k].id = procs[LastWriter].arg

\* two creates: each said it created ticket N, the log has both events, and
\* the store has one new ticket, the one of the process that saved last
C28_Witness ==
    /\ BothLoadedFirst
    /\ procs[1].op = "create" /\ procs[2].op = "create"
    /\ procs[1].arg = procs[2].arg
    /\ Len(Persisted) = Len(procs[1].tickets) + 1
    /\ Persisted[Len(Persisted)].title = RaceTitles[LastWriter]
    /\ \A k \in 1..Len(Persisted) : Persisted[k].title # RaceTitles[FirstWriter]
    /\ Len(SelectSeq(auditFile.lines,
                     LAMBDA l : /\ l.data.action = "TICKET_CREATE"
                                /\ l.data.entity_id = procs[1].arg)) = 2

\* a delete and then an update of another ticket: the deleted ticket is back
C28_WitnessDelete ==
    /\ BothLoadedFirst
    /\ procs[FirstWriter].op = "delete"
    /\ procs[LastWriter].op = "update"
    /\ procs[FirstWriter].arg # procs[LastWriter].arg
    /\ WithId(Persisted, procs[FirstWriter].arg) # <<>>

\* two updates of one ticket, a status change and then a priority change:
\* the status is what it was
C28_WitnessUpdate ==
    /\ BothLoadedFirst
    /\ procs[1].op = "update" /\ procs[2].op = "update"
    /\ procs[1].arg = procs[2].arg
    /\ procs[FirstWriter].result # procs[FirstWriter].tickets
    /\ WithId(procs[FirstWriter].result, procs[1].arg)[1].status = st_closed
    /\ WithId(Persisted, procs[1].arg)[1].status # st_closed
    /\ WithId(Persisted, procs[1].arg)[1].priority = <<"h","i","g","h">>

TicketOps == {"create", "list", "view", "update", "delete"}

\* the LOGIN and LOGOUT events of the audit log, in order
SessionEvents ==
    SelectSeq(auditFile.lines, LAMBDA l : l.data.action \in {"LOGIN", "LOGOUT"})

\* while a session is open, the last LOGIN or LOGOUT event of the log is the
\* LOGIN of the session's account
SessionIsLastLogin ==
    current_user # None =>
        /\ SessionEvents # <<>>
        /\ SessionEvents[Len(SessionEvents)].data.action = "LOGIN"
        /\ IdentityOf(current_user[1]) =
              <<SessionEvents[Len(SessionEvents)].data.user_id,
                SessionEvents[Len(SessionEvents)].data.username,
                SessionEvents[Len(SessionEvents)].data.role>>

\* a handler step: a ticket handler runs only in a session and for the
\* session's account; a session opens only by a login that succeeded, for the
\* persisted account with the username typed; a session's account never
\* changes, the session can only end; registering and failing to log in
\* leave the program without a session
SessionStep ==
    pc = "menu" =>
        /\ out'.op \in TicketOps =>
              /\ current_user # None
              /\ out'.requester = current_user
              /\ current_user' = current_user
        /\ (current_user = None /\ current_user' # None) =>
              /\ out'.op = "login"
              /\ out'.result = "ok"
              /\ \E i \in 1..Len(Accounts) :
                    /\ Accounts[i].username = out'.arg
                    /\ current_user' = Some(Accounts[i])
        /\ current_user # None => current_user' \in {current_user, None}
        /\ out'.op = "register" => current_user = None /\ current_user' = None
        /\ (out'.op = "login" /\ out'.result = "failed") =>
              current_user = None /\ current_user' = None
        /\ out'.op = "logout" => current_user # None /\ current_user' = None

\* C29: the program starts without a session; a session opens only by a
\* successful login and ends by logout or exit; the ticket handlers run only
\* in a session, for the account of the most recent successful login
C29_TicketOpsNeedSession ==
    /\ (current_user = None)
    /\ []SessionIsLastLogin
    /\ [][SessionStep]_vars

\* ana logged in and out, bob logged in and listed the tickets: the list was
\* made for bob
C29_Witness ==
    /\ out.op = "list"
    /\ out.requester # None
    /\ out.requester[1].username = txt_bob
    /\ [k \in 1..Len(auditFile.lines) |-> auditFile.lines[k].data.action] =
          <<"REGISTER", "REGISTER", "LOGIN", "LOGOUT", "LOGIN">>
    /\ auditFile.lines[3].data.username = txt_ana
    /\ auditFile.lines[5].data.username = txt_bob

\* registered and not logged in
C29_WitnessRegistered ==
    /\ out.op = "register"
    /\ out.result = "ok"
    /\ current_user = None

\* some persisted account has this id
AccountId(id) == \E i \in 1..Len(Accounts) : Accounts[i].id = id

\* C30: the owner_id of every persisted ticket is the id of a persisted
\* account
C30_OwnerExists ==
    \A i \in 1..Len(Persisted) : AccountId(Persisted[i].owner_id)

\* the only account is an agent with id 1; the agent created a ticket and
\* assigned it to "2", an id no account has
C30_Witness ==
    /\ out.op = "update"
    /\ out.result = "saved"
    /\ Len(Accounts) = 1
    /\ Len(Persisted) = 1
    /\ Persisted[1].owner_id = Accounts[1].id
    /\ Persisted[1].assignee_id = <<"2">>
    /\ ~AccountId(Persisted[1].assignee_id)

\* a ticket of the first account is still there after a second account was
\* registered in a later run of the program
C30_WitnessLater ==
    /\ out.op = "register"
    /\ out.result = "ok"
    /\ Len(Accounts) = 2
    /\ Len(Persisted) = 1
    /\ Persisted[1].owner_id = Accounts[1].id

(***************************************************************************)
(* sanitize_text_field called on its own: every text of up to MaxText      *)
(* characters over a letter, a space, a tab and a line feed, with every    *)
(* maximum length up to MaxWidth.                                          *)
(***************************************************************************)
MaxText == 4

MaxWidth == 4

SanitizeChars == {"a", " ", "\t", "\n"}

SanitizeTexts == UNION { [1..n -> SanitizeChars] : n \in 0..MaxText }

\* one call of sanitize_text_field(text, max_length)
SanitizeCall ==
    /\ pc = "menu"
    /\ \E text \in SanitizeTexts, max_length \in 0..MaxWidth :
          out' = Report("sanitize", [text |-> text, max_length |-> max_length],
                        "ok", sanitize_text_field(text, max_length), <<>>)
    /\ pc' = "report"
    /\ UNCHANGED <<storeVars, current_user, now, hist>>
    /\ UNCHANGED <<writerVars, procs>>

NextSanitize == Menu \/ SanitizeCall

SpecSanitize == Init /\ [][NextSanitize]_vars

\* C32: sanitize_text_field is idempotent: what it returns is returned
\* unchanged when it is sanitized again with the same maximum length, and
\* it neither begins nor ends with whitespace
C32_SanitizeIdempotent ==
    out.op = "sanitize" =>
        /\ sanitize_text_field(out.shown, out.arg.max_length) = out.shown
        /\ out.shown # <<>> =>
              /\ out.shown[1] \notin Whitespace
              /\ out.shown[Len(out.shown)] \notin Whitespace

\* "a a" cut at two characters: the result "a " ends with the space the cut
\* exposed, and sanitizing it again gives "a"
C32_CutLeavesSpace ==
    /\ out.op = "sanitize"
    /\ out.arg = [text |-> <<"a", " ", "a">>, max_length |-> 2]
    /\ out.shown = <<"a", " ">>
    /\ sanitize_text_field(out.shown, 2) = <<"a">>

\* the same for texts that fit the maximum length once stripped
C32_ButForTheCut ==
    (/\ out.op = "sanitize"
     /\ Len(strip(out.arg.text)) <= out.arg.max_length) =>
        /\ sanitize_text_field(out.shown, out.arg.max_length) = out.shown
        /\ out.shown = strip(out.shown)

\* a text with whitespace around it and a line feed inside that fits: the
\* result is the stripped text with the line feed made a space
C32_FitsUnchanged ==
    /\ out.op = "sanitize"
    /\ out.arg = [text |-> <<" ", "a", "\n", "a">>, max_length |-> 3]
    /\ out.shown = <<"a", " ", "a">>

\* a handler ran from the prompt to its last print
HandlerStep == pc = "menu" /\ pc' = "report"

\* the tickets of a sequence without the one at position k
Except(tickets, k) ==
    SubSeq(tickets, 1, k - 1) \o SubSeq(tickets, k + 1, Len(tickets))

\* C31: a successful ticket mutation changes only its target.  A create
\* leaves the persisted tickets as they were, in their order, in front of the
\* new one; a saved update changes one ticket, the first with the id given,
\* and not its id, owner_id or created_at, and every other ticket keeps its
\* place and its field values; a delete leaves exactly the tickets whose id
\* is not the id given, in their order and unchanged.  No ticket operation
\* changes the accounts file, and register and login never change the
\* tickets file
C31_OnlyTargetChanges ==
    [][HandlerStep =>
          LET before == Persisted
              after  == PersistedNext
          IN  /\ (out'.op = "create" /\ out'.result = "ok") =>
                    /\ Len(after) = Len(before) + 1
                    /\ SubSeq(after, 1, Len(before)) = before
              /\ (out'.op = "update" /\ out'.result = "saved") =>
                    LET k == find_ticket_by_id(out'.arg, before)
                    IN  /\ k # 0
                        /\ Len(after) = Len(before)
                        /\ Except(after, k) = Except(before, k)
                        /\ after[k].id = before[k].id
                        /\ after[k].owner_id = before[k].owner_id
                        /\ after[k].created_at = before[k].created_at
                        /\ after[k] # before[k]
              /\ (out'.op = "delete" /\ out'.result = "ok") =>
                    /\ after = SelectSeq(before, LAMBDA t : t.id # out'.arg)
                    /\ Len(after) < Len(before)
              /\ out'.op \in {"create", "update", "delete", "list", "view"} =>
                    usersFile' = usersFile
              /\ out'.op \in {"register", "login"} =>
                    ticketsFile' = ticketsFile]_vars

\* the second of two tickets was updated: the first is the ticket the run
\* started with
C31_Witness ==
    /\ out.op = "update"
    /\ out.result = "saved"
    /\ Len(Persisted) = 2
    /\ out.arg = Persisted[2].id
    /\ Persisted[2] = out.shown[2]
    /\ Persisted[2] # out.shown[1]
    /\ Persisted[1] = load_tickets(hist.tickets)[1]

\* the first of two tickets was deleted: the second is all that is left
C31_WitnessDelete ==
    /\ out.op = "delete"
    /\ out.result = "ok"
    /\ Len(load_tickets(hist.tickets)) = 2
    /\ out.arg = load_tickets(hist.tickets)[1].id
    /\ Persisted = <<load_tickets(hist.tickets)[2]>>

\* a ticket was created behind two others
C31_WitnessCreate ==
    /\ out.op = "create"
    /\ out.result = "ok"
    /\ Len(Persisted) = 3
    /\ SubSeq(Persisted, 1, 2) = load_tickets(hist.tickets)

\* a login while the store held two tickets
C31_WitnessLogin ==
    /\ out.op = "login"
    /\ out.result = "ok"
    /\ current_user # None
    /\ ticketsFile = hist.tickets
    /\ Len(Persisted) = 2

\* on a fresh installation: a second account was registered after the first
\* had created a ticket
C31_WitnessRegister ==
    /\ out.op = "register"
    /\ out.result = "ok"
    /\ Len(load_users(usersFile)) = 2
    /\ Len(Persisted) = 1

=============================================================================
